---- MODULE Spec2Model ----
(***************************************************************************)
(* A model of the CRAM core of noodles: the adaptive order-0 frequency     *)
(* model of the AAC codec (codecs/aac/model.rs) and the per-record writer  *)
(* (writer/record.rs).                                                     *)
(***************************************************************************)
EXTENDS Integers, Sequences, FiniteSets, TLC

(***************************************************************************)
(* Bounds of the model.                                                    *)
(***************************************************************************)
\* Model::new is called with max_sym in 0..MaxSym.
MaxSym == 2
\* Single decode calls explored per model.
MaxDecodes == 3
\* Runs of decodes of one symbol explored per model.
MaxBursts == 1
\* Length of one such run.
BurstLen == 4094
\* Length of a run of decodes of the symbol in the last place.
LastBurstLen == 16382

(***************************************************************************)
(* Program constants of codecs/aac/model.rs.                               *)
(***************************************************************************)
\* frequencies[x] += 16; total_freq += 16
STEP == 16
\* (1 << 16) - 17
MAX_TOTAL_FREQ == 65519

VARIABLES
    \* Model (codecs/aac/model.rs)
    total_freq, symbols, frequencies,
    \* the argument Model::new was called with
    max_sym,
    \* what the last decode call did: its input, its scan and its return value
    last_decode,
    \* number of decode calls and of runs made so far
    decode_calls, bursts,
    \* Writer (writer/record.rs): the header it borrows and its fields
    compression_header, external_data_writers, reference_sequence_id,
    prev_alignment_start,
    \* the argument initial_alignment_start of Writer::new
    initial_alignment_start,
    \* the last write_record call: its record, the Writer's prev_alignment_start
    \* when it was called, its io::Result and the values it passed to the
    \* encoders, in order
    last_call, result, emitted,
    \* alignment starts of the records written with Ok, in order, and the number
    \* of write_record calls
    written, calls

modelVars == <<total_freq, symbols, frequencies, max_sym, last_decode, decode_calls, bursts>>

writerVars == <<compression_header, external_data_writers, reference_sequence_id,
                prev_alignment_start, initial_alignment_start, last_call, result,
                emitted, written, calls>>

vars == <<modelVars, writerVars>>

(***************************************************************************)
(* codecs/aac/model.rs                                                     *)
(***************************************************************************)
Model_new(ms) ==
    [ total_freq  |-> ms + 1,
      symbols     |-> [i \in 1..(ms + 1) |-> i - 1],
      frequencies |-> [i \in 1..(ms + 1) |-> 1] ]

RECURSIVE SumSeq(_)
SumSeq(s) == IF s = <<>> THEN 0 ELSE Head(s) + SumSeq(Tail(s))

\* f -= f / 2 for every frequency, total_freq = their sum (a mis-sized model
\* is not possible: the loop runs over the vector itself).
renormalize_keeps_total(m) ==
    [m EXCEPT !.frequencies = [i \in DOMAIN m.frequencies |->
                                   m.frequencies[i] - (m.frequencies[i] \div 2)]]

renormalize_halves(m) ==
    LET fs == [i \in DOMAIN m.frequencies |-> m.frequencies[i] \div 2]
    IN  [m EXCEPT !.frequencies = fs, !.total_freq = SumSeq(fs)]

renormalize(m) ==
    LET fs == [i \in DOMAIN m.frequencies |->
                   m.frequencies[i] - (m.frequencies[i] \div 2)]
    IN  [m EXCEPT !.frequencies = fs, !.total_freq = SumSeq(fs)]

\* The scan with `<` for `<=`: it stops one index early when freq is the sum
\* of the frequencies up to x.
RECURSIVE scan_stops_early(_, _, _, _)
scan_stops_early(fs, freq, acc, x) ==
    IF x >= Len(fs)
    THEN [x |-> x, acc |-> acc, oob |-> TRUE]
    ELSE IF acc + fs[x + 1] < freq
         THEN scan_stops_early(fs, freq, acc + fs[x + 1], x + 1)
         ELSE [x |-> x, acc |-> acc, oob |-> FALSE]

\* The linear scan of decode: x and acc are the loop variables (x counts from
\* 0 as in the source).  Reading frequencies[x] with x = len is the source's
\* out-of-bounds index: oob.
RECURSIVE scan(_, _, _, _)
scan(fs, freq, acc, x) ==
    IF x >= Len(fs)
    THEN [x |-> x, acc |-> acc, oob |-> TRUE]
    ELSE IF acc + fs[x + 1] <= freq
         THEN scan(fs, freq, acc + fs[x + 1], x + 1)
         ELSE [x |-> x, acc |-> acc, oob |-> FALSE]

Swap(s, i, j) == [s EXCEPT ![i] = s[j], ![j] = s[i]]

\* if x > 0 && frequencies[x] > frequencies[x - 1] { swap both at x, x - 1 }
move_up_overwrites(m, x) ==
    IF x > 0 /\ m.frequencies[x + 1] > m.frequencies[x]
    THEN [m EXCEPT !.frequencies = Swap(m.frequencies, x + 1, x),
                   !.symbols = [m.symbols EXCEPT ![x] = m.symbols[x + 1]]]
    ELSE m

move_up(m, x) ==
    IF x > 0 /\ m.frequencies[x + 1] > m.frequencies[x]
    THEN [m EXCEPT !.frequencies = Swap(m.frequencies, x + 1, x),
                   !.symbols = Swap(m.symbols, x + 1, x)]
    ELSE m

\* decode that makes the move-up comparison before the renormalization, on
\* the frequencies as they are right after the increment.
decode_moves_up_first(m, freq) ==
    LET sc == scan(m.frequencies, freq, 0, 0) IN
    IF sc.oob
    THEN [model |-> m, panic |-> TRUE, freq |-> freq, x |-> sc.x, acc |-> sc.acc,
          range_freq |-> 0, sym |-> 0, renormalized |-> FALSE, swapped |-> FALSE]
    ELSE
    LET x  == sc.x
        m1 == [m EXCEPT !.frequencies[x + 1] = @ + STEP, !.total_freq = @ + STEP]
        rn == m1.total_freq > MAX_TOTAL_FREQ
        m2 == move_up(m1, x)
        m3 == IF rn THEN renormalize(m2) ELSE m2
    IN  [model |-> m3, panic |-> FALSE, freq |-> freq, x |-> x, acc |-> sc.acc,
         range_freq |-> m.frequencies[x + 1], sym |-> m.symbols[x + 1],
         renormalized |-> rn, swapped |-> m2 # m1]

\* decode that lets total_freq grow one more STEP before it renormalizes.
decode_renormalizes_late(m, freq) ==
    LET sc == scan(m.frequencies, freq, 0, 0) IN
    IF sc.oob
    THEN [model |-> m, panic |-> TRUE, freq |-> freq, x |-> sc.x, acc |-> sc.acc,
          range_freq |-> 0, sym |-> 0, renormalized |-> FALSE, swapped |-> FALSE]
    ELSE
    LET x  == sc.x
        m1 == [m EXCEPT !.frequencies[x + 1] = @ + STEP, !.total_freq = @ + STEP]
        rn == m1.total_freq > MAX_TOTAL_FREQ + STEP
        m2 == IF rn THEN renormalize(m1) ELSE m1
        m3 == move_up(m2, x)
    IN  [model |-> m3, panic |-> FALSE, freq |-> freq, x |-> x, acc |-> sc.acc,
         range_freq |-> m.frequencies[x + 1], sym |-> m.symbols[x + 1],
         renormalized |-> rn, swapped |-> m3 # m2]

\* decode that returns the symbol found at index x after the move-up swap.
decode_returns_after_swap(m, freq) ==
    LET sc == scan(m.frequencies, freq, 0, 0) IN
    IF sc.oob
    THEN [model |-> m, panic |-> TRUE, freq |-> freq, x |-> sc.x, acc |-> sc.acc,
          range_freq |-> 0, sym |-> 0, renormalized |-> FALSE, swapped |-> FALSE]
    ELSE
    LET x  == sc.x
        m1 == [m EXCEPT !.frequencies[x + 1] = @ + STEP, !.total_freq = @ + STEP]
        rn == m1.total_freq > MAX_TOTAL_FREQ
        m2 == IF rn THEN renormalize(m1) ELSE m1
        m3 == move_up(m2, x)
    IN  [model |-> m3, panic |-> FALSE, freq |-> freq, x |-> x, acc |-> sc.acc,
         range_freq |-> m.frequencies[x + 1], sym |-> m3.symbols[x + 1],
         renormalized |-> rn, swapped |-> m3 # m2]

\* Model::decode with the value freq returned by range_get_freq(total_freq).
\* The result holds the new model and what the call did.
decode(m, freq) ==
    LET sc == scan(m.frequencies, freq, 0, 0) IN
    IF sc.oob
    THEN [model |-> m, panic |-> TRUE, freq |-> freq, x |-> sc.x, acc |-> sc.acc,
          range_freq |-> 0, sym |-> 0, renormalized |-> FALSE, swapped |-> FALSE]
    ELSE
    LET x  == sc.x
        m1 == [m EXCEPT !.frequencies[x + 1] = @ + STEP, !.total_freq = @ + STEP]
        rn == m1.total_freq > MAX_TOTAL_FREQ
        m2 == IF rn THEN renormalize(m1) ELSE m1
        m3 == move_up(m2, x)
    IN  [model |-> m3, panic |-> FALSE, freq |-> freq, x |-> x, acc |-> sc.acc,
         range_freq |-> m.frequencies[x + 1], sym |-> m2.symbols[x + 1],
         renormalized |-> rn, swapped |-> m3 # m2]

\* The values of freq that matter to decode: for every index, the least and
\* the greatest value of freq that select it.
RECURSIVE Cumulative(_, _)
Cumulative(fs, n) == IF n = 0 THEN 0 ELSE Cumulative(fs, n - 1) + fs[n]

FreqChoices(m) ==
    UNION { { Cumulative(m.frequencies, i - 1), Cumulative(m.frequencies, i) - 1 }
            : i \in DOMAIN m.frequencies }

\* k decode calls in a row, each with freq = 0 (the decoder's loop over a run
\* of the symbol in front).
RECURSIVE decode_run(_, _)
decode_run(m, k) ==
    IF k = 0 THEN m
    ELSE IF k = 1 THEN decode(m, 0).model
    ELSE LET half == decode_run(m, k \div 2)
         IN  IF half.total_freq > 0 THEN decode_run(half, k - (k \div 2)) ELSE half

\* k decode calls in a row, each with freq = total_freq - 1 (the decoder's
\* loop over a run of the symbol in the last place).
RECURSIVE decode_run_last(_, _)
decode_run_last(m, k) ==
    IF k = 0 THEN m
    ELSE IF k = 1 THEN decode(m, m.total_freq - 1).model
    ELSE LET half == decode_run_last(m, k \div 2)
         IN  IF half.total_freq > 0 THEN decode_run_last(half, k - (k \div 2)) ELSE half

CurrentModel == [total_freq |-> total_freq, symbols |-> symbols, frequencies |-> frequencies]

NoDecode ==
    [panic |-> FALSE, freq |-> 0, x |-> 0, acc |-> 0, range_freq |-> 0, sym |-> 0,
     renormalized |-> FALSE, swapped |-> FALSE, before |-> Model_new(0)]

\* The model after a decode call that found it as `before` and returned r.
SetModel(r, before) ==
    /\ total_freq' = r.model.total_freq
    /\ symbols' = r.model.symbols
    /\ frequencies' = r.model.frequencies
    /\ last_decode' = [panic |-> r.panic, freq |-> r.freq, x |-> r.x, acc |-> r.acc,
                       range_freq |-> r.range_freq, sym |-> r.sym,
                       renormalized |-> r.renormalized, swapped |-> r.swapped,
                       before |-> before]

\* One call of Model::decode.
Decode(freq) ==
    /\ decode_calls < MaxDecodes
    /\ ~last_decode.panic
    /\ SetModel(decode(CurrentModel, freq), CurrentModel)
    /\ decode_calls' = decode_calls + 1
    /\ UNCHANGED <<max_sym, bursts>>
    /\ UNCHANGED writerVars

\* LastBurstLen calls of Model::decode on a new model, each with
\* freq = total_freq - 1.
DecodeBurstLast ==
    /\ bursts < MaxBursts
    /\ decode_calls = 0
    /\ bursts = 0
    /\ ~last_decode.panic
    /\ LET before == decode_run_last(CurrentModel, LastBurstLen - 1)
       IN  SetModel(decode(before, before.total_freq - 1), before)
    /\ bursts' = bursts + 1
    /\ UNCHANGED <<max_sym, decode_calls>>
    /\ UNCHANGED writerVars

\* BurstLen calls of Model::decode, each with freq = 0.
DecodeBurst ==
    /\ bursts < MaxBursts
    /\ ~last_decode.panic
    /\ LET before == decode_run(CurrentModel, BurstLen - 1)
       IN  SetModel(decode(before, 0), before)
    /\ bursts' = bursts + 1
    /\ UNCHANGED <<max_sym, decode_calls>>
    /\ UNCHANGED writerVars


(***************************************************************************)
(* writer/record.rs: values                                                *)
(***************************************************************************)
\* Option<T>: None is <<>>, Some(v) is <<v>>.
None == <<>>
Some(v) == <<v>>
is_some(o) == o # <<>>
unwrap(o) == o[1]

\* DataSeries, in the order of the CRAM specification; a series' place in it
\* is the block content id the header of this model gives it.
DataSeriesList ==
    << "BamBitFlags", "CramBitFlags", "ReferenceId", "ReadLengths", "InSeqPositions",
       "ReadGroups", "ReadNames", "NextMateBitFlags", "NextFragmentReferenceSequenceId",
       "NextMateAlignmentStart", "TemplateSize", "DistanceToNextFragment", "TagIds",
       "NumberOfReadFeatures", "ReadFeaturesCodes", "InReadPositions", "DeletionLengths",
       "StretchesOfBases", "StretchesOfQualityScores", "BaseSubstitutionCodes",
       "Insertion", "ReferenceSkipLength", "Padding", "HardClip", "SoftClip",
       "MappingQualities", "Bases", "QualityScores" >>

DataSeries == { DataSeriesList[i] : i \in DOMAIN DataSeriesList }

\* The series whose accessor returns &Encoding; every other accessor returns
\* Option<&Encoding>.
MandatorySeries ==
    { "BamBitFlags", "CramBitFlags", "ReadLengths", "InSeqPositions", "ReadGroups", "TagIds" }

OptionalSeries == DataSeries \ MandatorySeries

\* An Encoding is a tuple led by its kind: <<"External", block_content_id>>,
\* <<"ByteArrayLen", len_encoding, value_encoding>>,
\* <<"ByteArrayStop", stop_byte, block_content_id>>, and <<"Null">>,
\* <<"Golomb">>, ... for the kinds the record writer does not implement.
\* An absent Option<&Encoding> is NoEncoding.
NoEncoding == <<"None">>

\* WriteRecordError and the other payloads of io::Error.
MissingDataSeriesEncoding(series) == <<"MissingDataSeriesEncoding", series>>
MissingTagEncoding(key) == <<"MissingTagEncoding", key>>
MissingExternalBlock(block_content_id) == <<"MissingExternalBlock", block_content_id>>
Message(text) == <<"Message", text>>
TryFromIntError == <<"TryFromIntError">>
NoError == <<"NoError">>

\* The Writer as write_record threads it: its fields, the io::Result so far
\* (status Ok, Err or Panic; kind is the io::ErrorKind) and the values passed
\* to the encoders so far.  The `?` operator and a panic end the call: once
\* the status is not Ok, no later step changes anything.
Fail(self, kind, error) ==
    IF self.status = "Ok"
    THEN [self EXCEPT !.status = "Err", !.kind = kind, !.error = error]
    ELSE self

\* A panic: todo!() has kind "todo", an arithmetic overflow kind "overflow".
Panic(self, kind) ==
    IF self.status = "Ok"
    THEN [self EXCEPT !.status = "Panic", !.kind = kind, !.error = NoError]
    ELSE self

\* todo!()
Todo(self) == Panic(self, "todo")

\* A step of write_record is not entered after an error or a panic.
Then(self, rest) == IF self.status = "Ok" THEN rest ELSE self

write_bytes(self, block_content_id, tokens) ==
    IF self.status = "Ok"
    THEN [self EXCEPT !.external_data_writers[block_content_id] = @ \o tokens]
    ELSE self

U8(b) == <<"u8", b>>
Itf8(n) == <<"itf8", n>>

\* i32::try_from(usize) succeeds.  A negative n stands for the usize 2^64 + n
\* that a wrapping subtraction leaves.
i32_try_from_ok(n) == n >= 0 /\ n <= 2147483647

(***************************************************************************)
(* writer/record.rs: encode_byte, encode_itf8, encode_byte_array           *)
(***************************************************************************)
encode_byte(encoding, self, value) ==
    IF encoding[1] = "External"
    THEN IF encoding[2] \notin DOMAIN self.external_data_writers
         THEN Fail(self, "InvalidData", MissingExternalBlock(encoding[2]))
         ELSE write_bytes(self, encoding[2], << U8(value) >>)
    ELSE Todo(self)

\* encode_itf8 with the block looked up by entry(id).or_default(): a missing
\* block is opened instead of reported.
encode_itf8_opens_block(encoding, self, value) ==
    IF encoding[1] = "External"
    THEN LET opened == IF encoding[2] \in DOMAIN self.external_data_writers
                       THEN self
                       ELSE [self EXCEPT !.external_data_writers =
                                [id \in DOMAIN @ \cup { encoding[2] } |->
                                    IF id \in DOMAIN @ THEN @[id] ELSE <<>>]]
         IN  write_bytes(opened, encoding[2], << Itf8(value) >>)
    ELSE Todo(self)

encode_itf8(encoding, self, value) ==
    IF encoding[1] = "External"
    THEN IF encoding[2] \notin DOMAIN self.external_data_writers
         THEN Fail(self, "InvalidData", MissingExternalBlock(encoding[2]))
         ELSE write_bytes(self, encoding[2], << Itf8(value) >>)
    ELSE Todo(self)

RECURSIVE encode_byte_array(_, _, _)
encode_byte_array(encoding, self, data) ==
    CASE encoding[1] = "External" ->
           IF encoding[2] \notin DOMAIN self.external_data_writers
           THEN Fail(self, "InvalidData", MissingExternalBlock(encoding[2]))
           ELSE write_bytes(self, encoding[2], [i \in DOMAIN data |-> U8(data[i])])
      [] encoding[1] = "ByteArrayLen" ->
           IF ~i32_try_from_ok(Len(data))
           THEN Fail(self, "InvalidInput", TryFromIntError)
           ELSE LET s1 == encode_itf8(encoding[2], self, Len(data))
                IN  encode_byte_array(encoding[3], s1, data)
      [] encoding[1] = "ByteArrayStop" ->
           IF encoding[3] \notin DOMAIN self.external_data_writers
           THEN Fail(self, "InvalidInput", MissingExternalBlock(encoding[3]))
           ELSE write_bytes(self, encoding[3],
                            [i \in DOMAIN data |-> U8(data[i])] \o << U8(encoding[2]) >>)
      [] OTHER -> Todo(self)

(***************************************************************************)
(* writer/record.rs: impl Writer                                           *)
(***************************************************************************)
\* The values handed to the encoders are recorded in self.log as they are
\* written: the series, the tag key (for a tag value) and the value.
Emit(self, series, key, value) ==
    IF self.status = "Ok"
    THEN [self EXCEPT !.log = Append(@, [series |-> series, key |-> key, value |-> value])]
    ELSE self

data_series_encoding_map == compression_header.data_series_encoding_map
preservation_map == compression_header.preservation_map
tag_encoding_map == compression_header.tag_encoding_map

\* .ok_or_else(|| io::Error::new(InvalidData, MissingDataSeriesEncoding(series)))?
\* followed by the rest of the function, which uses the encoding.
with_encoding(self, series, rest) ==
    IF data_series_encoding_map[series] = NoEncoding
    THEN Fail(self, "InvalidData", MissingDataSeriesEncoding(series))
    ELSE rest

\* An encoder call of a write_<series> function, with the record of its value.
put_itf8(encoding, self, series, n) == Emit(encode_itf8(encoding, self, n), series, None, n)
put_byte(encoding, self, series, b) == Emit(encode_byte(encoding, self, b), series, None, b)
put_byte_array(encoding, self, series, data) ==
    Emit(encode_byte_array(encoding, self, data), series, None, data)

\* i32::try_from(n).map_err(|e| io::Error::new(kind, e))? and then the encoder.
put_usize(encoding, self, series, n, kind) ==
    IF ~i32_try_from_ok(n) THEN Fail(self, kind, TryFromIntError)
    ELSE put_itf8(encoding, self, series, n)

\* The same for an Option<usize>, absent written as `missing`.
put_option(encoding, self, series, o, missing, kind) ==
    IF is_some(o) THEN put_usize(encoding, self, series, unwrap(o), kind)
    ELSE put_itf8(encoding, self, series, missing)

\* bam::record::reference_sequence_id::UNMAPPED
UNMAPPED == -1
\* const MISSING: i32 = -1 of write_read_group
MISSING_READ_GROUP == -1
\* sam::record::mapping_quality::MISSING
MISSING_MAPPING_QUALITY == 255
\* sam::record::read_name::MISSING, b"*"
MISSING_READ_NAME == << 42 >>

\* Flags of the SAM record and of the CRAM record.
is_unmapped(bam_flags) == (bam_flags \div 4) % 2 = 1
are_quality_scores_stored_as_array(cram_flags) == cram_flags % 2 = 1
is_detached(cram_flags) == (cram_flags \div 2) % 2 = 1

\* ReferenceSequenceId::is_many
is_many(id) == id = <<"Many">>

\* write_bam_bit_flags with the encoding looked up as an Option that is
\* never there.
write_bam_bit_flags_missing(self, bam_flags) ==
    Then(self,
        Fail(self, "InvalidData", MissingDataSeriesEncoding("BamBitFlags")))

write_bam_bit_flags(self, bam_flags) ==
    Then(self,
        put_itf8(data_series_encoding_map["BamBitFlags"], self, "BamBitFlags", bam_flags))

write_cram_bit_flags(self, flags) ==
    Then(self,
        put_itf8(data_series_encoding_map["CramBitFlags"], self, "CramBitFlags", flags))

write_reference_id(self, id) ==
    Then(self,
        with_encoding(self, "ReferenceId",
            put_option(data_series_encoding_map["ReferenceId"], self, "ReferenceId", id, UNMAPPED, "InvalidInput")))

write_read_length(self, read_length) ==
    Then(self,
        put_usize(data_series_encoding_map["ReadLengths"], self, "ReadLengths", read_length,
                  "InvalidData"))

write_alignment_start_absolute(self, alignment_start) ==
    Then(self,
        put_option(data_series_encoding_map["InSeqPositions"], self, "InSeqPositions",
                   alignment_start, 0, "InvalidInput"))

write_alignment_start_lenient(self, alignment_start) ==
    Then(self,
        LET encoding == data_series_encoding_map["InSeqPositions"]
            a == IF is_some(alignment_start) THEN unwrap(alignment_start) ELSE 0
            p == IF is_some(self.prev_alignment_start) THEN unwrap(self.prev_alignment_start) ELSE 0
        IN  IF preservation_map.ap_data_series_delta
            THEN put_itf8(encoding, self, "InSeqPositions", a - p)
            ELSE put_itf8(encoding, self, "InSeqPositions", a))

write_alignment_start(self, alignment_start) ==
    Then(self,
        LET encoding == data_series_encoding_map["InSeqPositions"]
            prev == self.prev_alignment_start
        IN  IF preservation_map.ap_data_series_delta
            THEN CASE ~is_some(alignment_start) /\ ~is_some(prev) ->
                        put_itf8(encoding, self, "InSeqPositions", 0)
                   [] is_some(alignment_start) /\ is_some(prev) ->
                        IF ~i32_try_from_ok(unwrap(alignment_start))
                           \/ ~i32_try_from_ok(unwrap(prev))
                        THEN Fail(self, "InvalidInput", TryFromIntError)
                        ELSE put_itf8(encoding, self, "InSeqPositions",
                                      unwrap(alignment_start) - unwrap(prev))
                   [] OTHER ->
                        Fail(self, "InvalidInput",
                             Message("invalid alignment start or previous alignment start"))
            ELSE put_option(encoding, self, "InSeqPositions", alignment_start, 0, "InvalidInput"))

write_read_group(self, read_group_id) ==
    Then(self,
        put_option(data_series_encoding_map["ReadGroups"], self, "ReadGroups", read_group_id,
                   MISSING_READ_GROUP, "InvalidInput"))

write_positional_data_swapped(self, record) ==
    Then(self,
        LET s1 == IF is_many(self.reference_sequence_id)
                  THEN write_reference_id(self, record.reference_sequence_id)
                  ELSE self
            s2 == write_alignment_start(s1, record.alignment_start)
            s3 == write_read_length(s2, record.read_length)
        IN  write_read_group(s3, record.read_group_id))

write_positional_data_always_ri(self, record) ==
    Then(self,
        LET s1 == write_reference_id(self, record.reference_sequence_id)
            s2 == write_read_length(s1, record.read_length)
            s3 == write_alignment_start(s2, record.alignment_start)
        IN  write_read_group(s3, record.read_group_id))

write_positional_data(self, record) ==
    Then(self,
        LET s1 == IF is_many(self.reference_sequence_id)
                  THEN write_reference_id(self, record.reference_sequence_id)
                  ELSE self
            s2 == write_read_length(s1, record.read_length)
            s3 == write_alignment_start(s2, record.alignment_start)
        IN  write_read_group(s3, record.read_group_id))

write_read_name(self, read_name) ==
    Then(self,
        with_encoding(self, "ReadNames",
            put_byte_array(data_series_encoding_map["ReadNames"], self, "ReadNames",
                    IF is_some(read_name) THEN unwrap(read_name) ELSE MISSING_READ_NAME)))

write_next_mate_bit_flags(self, next_mate_flags) ==
    Then(self,
        with_encoding(self, "NextMateBitFlags",
            put_itf8(data_series_encoding_map["NextMateBitFlags"], self, "NextMateBitFlags", next_mate_flags)))

write_next_fragment_reference_sequence_id(self, id) ==
    Then(self,
        with_encoding(self, "NextFragmentReferenceSequenceId",
            put_option(data_series_encoding_map["NextFragmentReferenceSequenceId"], self, "NextFragmentReferenceSequenceId", id, UNMAPPED,
                           "InvalidInput")))

write_next_mate_alignment_start(self, next_mate_alignment_start) ==
    Then(self,
        with_encoding(self, "NextMateAlignmentStart",
            put_option(data_series_encoding_map["NextMateAlignmentStart"], self, "NextMateAlignmentStart", next_mate_alignment_start, 0,
                           "InvalidInput")))

write_template_size(self, template_size) ==
    Then(self,
        with_encoding(self, "TemplateSize",
            put_itf8(data_series_encoding_map["TemplateSize"], self, "TemplateSize", template_size)))

write_distance_to_next_fragment(self, distance_to_next_fragment) ==
    Then(self,
        with_encoding(self, "DistanceToNextFragment",
            put_usize(data_series_encoding_map["DistanceToNextFragment"], self, "DistanceToNextFragment", distance_to_next_fragment,
                          "InvalidInput")))

\* write_mate_data that writes the read name of a detached record whether
\* or not write_record has written it already.
write_mate_data_names_again(self, record) ==
    Then(self,
        IF is_detached(record.cram_flags)
        THEN LET s1 == write_next_mate_bit_flags(self, record.next_mate_flags)
                 s2 == write_read_name(s1, record.read_name)
                 s3 == write_next_fragment_reference_sequence_id(
                           s2, record.next_fragment_reference_sequence_id)
                 s4 == write_next_mate_alignment_start(s3, record.next_mate_alignment_start)
             IN  write_template_size(s4, record.template_size)
        ELSE IF is_some(record.distance_to_next_fragment)
             THEN write_distance_to_next_fragment(self, unwrap(record.distance_to_next_fragment))
             ELSE self)

\* write_mate_data that writes NF whenever the distance is there, detached
\* or not.
write_mate_data_always_nf(self, record) ==
    Then(self,
        LET s0 == IF is_detached(record.cram_flags)
                  THEN LET s1 == write_next_mate_bit_flags(self, record.next_mate_flags)
                           s2 == IF ~preservation_map.read_names_included
                                 THEN write_read_name(s1, record.read_name)
                                 ELSE s1
                           s3 == write_next_fragment_reference_sequence_id(
                                     s2, record.next_fragment_reference_sequence_id)
                           s4 == write_next_mate_alignment_start(
                                     s3, record.next_mate_alignment_start)
                       IN  write_template_size(s4, record.template_size)
                  ELSE self
        IN  IF is_some(record.distance_to_next_fragment)
            THEN write_distance_to_next_fragment(s0, unwrap(record.distance_to_next_fragment))
            ELSE s0)

write_mate_data(self, record) ==
    Then(self,
        IF is_detached(record.cram_flags)
        THEN LET s1 == write_next_mate_bit_flags(self, record.next_mate_flags)
                 s2 == IF ~preservation_map.read_names_included
                       THEN write_read_name(s1, record.read_name)
                       ELSE s1
                 s3 == write_next_fragment_reference_sequence_id(
                           s2, record.next_fragment_reference_sequence_id)
                 s4 == write_next_mate_alignment_start(s3, record.next_mate_alignment_start)
             IN  write_template_size(s4, record.template_size)
        ELSE IF is_some(record.distance_to_next_fragment)
             THEN write_distance_to_next_fragment(self, unwrap(record.distance_to_next_fragment))
             ELSE self)

\* tag_ids_dictionary::Key is the three bytes <<tag[0], tag[1], type>>;
\* Key::id packs them into an i32.
key_id(key) == key[1] * 65536 + key[2] * 256 + key[3]

write_tag_line(self, tag_line) ==
    Then(self,
        put_usize(data_series_encoding_map["TagIds"], self, "TagIds", tag_line, "InvalidInput"))

\* write_tag_values that passes over a tag without an encoding.
RECURSIVE write_tag_values_skips(_, _)
write_tag_values_skips(self, fields) ==
    Then(self,
        IF fields = <<>> THEN self
        ELSE LET field == Head(fields)
                 key == field.key
                 s1 == IF key_id(key) \notin DOMAIN tag_encoding_map
                       THEN self
                       ELSE Emit(encode_byte_array(tag_encoding_map[key_id(key)], self, field.value),
                                 "Tag", key, field.value)
             IN  write_tag_values_skips(s1, Tail(fields)))

\* for field in record.tags().values() { ... }
RECURSIVE write_tag_values(_, _)
write_tag_values(self, fields) ==
    Then(self,
        IF fields = <<>> THEN self
        ELSE LET field == Head(fields)
                 key == field.key
                 s1 == IF key_id(key) \notin DOMAIN tag_encoding_map
                       THEN Fail(self, "InvalidInput", MissingTagEncoding(key))
                       ELSE Emit(encode_byte_array(tag_encoding_map[key_id(key)], self, field.value),
                                 "Tag", key, field.value)
             IN  write_tag_values(s1, Tail(fields)))

\* The place (from 0) of the first line of the dictionary equal to keys, or
\* None: tag_ids_dictionary.iter().enumerate().find(|(_, k)| **k == keys).
find_tag_line_same_length(tag_ids_dictionary, keys) ==
    LET found == { i \in DOMAIN tag_ids_dictionary :
                      Len(tag_ids_dictionary[i]) = Len(keys) }
    IN  IF found = {} THEN None
        ELSE Some((CHOOSE i \in found : \A j \in found : i <= j) - 1)

find_tag_line(tag_ids_dictionary, keys) ==
    LET found == { i \in DOMAIN tag_ids_dictionary : tag_ids_dictionary[i] = keys }
    IN  IF found = {} THEN None
        ELSE Some((CHOOSE i \in found : \A j \in found : i <= j) - 1)

write_tag_data(self, record) ==
    Then(self,
        LET keys == [i \in DOMAIN record.tags |-> record.tags[i].key]
            tag_line == find_tag_line(preservation_map.tag_ids_dictionary, keys)
        IN  IF ~is_some(tag_line)
            THEN Fail(self, "InvalidInput", Message("tag line not in tag IDs dictionary"))
            ELSE LET s1 == write_tag_line(self, unwrap(tag_line))
                 IN  write_tag_values(s1, record.tags))

\* u8::from(Base): the ASCII letter of the base.
base_byte(base) ==
    CASE base = "A" -> 65 [] base = "C" -> 67 [] base = "G" -> 71 [] base = "T" -> 84
      [] OTHER -> 78

bases_bytes(bases) == [i \in DOMAIN bases |-> base_byte(bases[i])]

\* u8::from(feature::Code): the letter of the feature.
feature_code(kind) ==
    CASE kind = "Bases" -> 98 [] kind = "Scores" -> 113 [] kind = "ReadBase" -> 66
      [] kind = "Substitution" -> 88 [] kind = "Insertion" -> 73 [] kind = "Deletion" -> 68
      [] kind = "InsertBase" -> 105 [] kind = "QualityScore" -> 81
      [] kind = "ReferenceSkip" -> 78 [] kind = "SoftClip" -> 83 [] kind = "Padding" -> 80
      [] OTHER -> 72

\* SubstitutionMatrix::find_code: the place (from 0) of read_base in the row
\* of reference_base.
find_code(substitution_matrix, reference_base, read_base) ==
    (CHOOSE c \in 1..4 : substitution_matrix[reference_base][c] = read_base) - 1

write_number_of_read_features(self, feature_count) ==
    Then(self,
        with_encoding(self, "NumberOfReadFeatures",
            put_usize(data_series_encoding_map["NumberOfReadFeatures"], self, "NumberOfReadFeatures", feature_count, "InvalidInput")))

write_feature_code(self, kind) ==
    Then(self,
        with_encoding(self, "ReadFeaturesCodes",
            put_byte(data_series_encoding_map["ReadFeaturesCodes"], self, "ReadFeaturesCodes", feature_code(kind))))

write_feature_position(self, position) ==
    Then(self,
        with_encoding(self, "InReadPositions",
            put_usize(data_series_encoding_map["InReadPositions"], self, "InReadPositions", position, "InvalidInput")))

write_stretches_of_bases(self, bases) ==
    Then(self,
        with_encoding(self, "StretchesOfBases",
            put_byte_array(data_series_encoding_map["StretchesOfBases"], self, "StretchesOfBases", bases_bytes(bases))))

write_stretches_of_quality_scores(self, quality_scores) ==
    Then(self,
        with_encoding(self, "StretchesOfQualityScores",
            put_byte_array(data_series_encoding_map["StretchesOfQualityScores"], self, "StretchesOfQualityScores", quality_scores)))

write_base(self, base) ==
    Then(self,
        with_encoding(self, "Bases",
            put_byte(data_series_encoding_map["Bases"], self, "Bases", base_byte(base))))

write_quality_score(self, quality_score) ==
    Then(self,
        with_encoding(self, "QualityScores",
            put_byte(data_series_encoding_map["QualityScores"], self, "QualityScores", quality_score)))

\* A substitution::Value is <<"Bases", reference_base, read_base>> or <<"Code", code>>.
write_base_substitution_code(self, value) ==
    Then(self,
        with_encoding(self, "BaseSubstitutionCodes",
            IF value[1] = "Code"
                THEN Fail(self, "InvalidInput",
                          Message("base substitution cannot be a code on write"))
                ELSE put_byte(data_series_encoding_map["BaseSubstitutionCodes"], self, "BaseSubstitutionCodes",
                              find_code(preservation_map.substitution_matrix, value[2], value[3]))))

write_insertion(self, bases) ==
    Then(self,
        with_encoding(self, "Insertion",
            put_byte_array(data_series_encoding_map["Insertion"], self, "Insertion", bases_bytes(bases))))

write_deletion_length(self, len) ==
    Then(self,
        with_encoding(self, "DeletionLengths",
            put_usize(data_series_encoding_map["DeletionLengths"], self, "DeletionLengths", len, "InvalidInput")))

write_reference_skip_length(self, len) ==
    Then(self,
        with_encoding(self, "ReferenceSkipLength",
            put_usize(data_series_encoding_map["ReferenceSkipLength"], self, "ReferenceSkipLength", len, "InvalidInput")))

write_soft_clip(self, bases) ==
    Then(self,
        with_encoding(self, "SoftClip",
            put_byte_array(data_series_encoding_map["SoftClip"], self, "SoftClip", bases_bytes(bases))))

write_padding(self, len) ==
    Then(self,
        with_encoding(self, "Padding",
            put_usize(data_series_encoding_map["Padding"], self, "Padding", len, "InvalidInput")))

write_hard_clip(self, len) ==
    Then(self,
        with_encoding(self, "HardClip",
            put_usize(data_series_encoding_map["HardClip"], self, "HardClip", len, "InvalidInput")))

\* write_mapping_quality with 0 for an absent mapping quality.
write_mapping_quality_zero(self, mapping_quality) ==
    Then(self,
        with_encoding(self, "MappingQualities",
            put_itf8(data_series_encoding_map["MappingQualities"], self, "MappingQualities",
                     IF is_some(mapping_quality) THEN unwrap(mapping_quality) ELSE 0)))

write_mapping_quality(self, mapping_quality) ==
    Then(self,
        with_encoding(self, "MappingQualities",
            put_itf8(data_series_encoding_map["MappingQualities"], self, "MappingQualities",
                    IF is_some(mapping_quality) THEN unwrap(mapping_quality)
                    ELSE MISSING_MAPPING_QUALITY)))

\* A Feature is [kind, position, value]; the value of a ReadBase is
\* <<base, quality_score>>.
write_feature(self, feature, position) ==
    Then(self,
        LET s1 == write_feature_code(self, feature.kind)
            s2 == write_feature_position(s1, position)
            v  == feature.value
        IN  CASE feature.kind = "Bases" -> write_stretches_of_bases(s2, v)
              [] feature.kind = "Scores" -> write_stretches_of_quality_scores(s2, v)
              [] feature.kind = "ReadBase" ->
                   LET s3 == write_base(s2, v[1]) IN write_quality_score(s3, v[2])
              [] feature.kind = "Substitution" -> write_base_substitution_code(s2, v)
              [] feature.kind = "Insertion" -> write_insertion(s2, v)
              [] feature.kind = "Deletion" -> write_deletion_length(s2, v)
              [] feature.kind = "InsertBase" -> write_base(s2, v)
              [] feature.kind = "QualityScore" -> write_quality_score(s2, v)
              [] feature.kind = "ReferenceSkip" -> write_reference_skip_length(s2, v)
              [] feature.kind = "SoftClip" -> write_soft_clip(s2, v)
              [] feature.kind = "Padding" -> write_padding(s2, v)
              [] OTHER -> write_hard_clip(s2, v))

\* write_features that writes every position as it is, not as a delta.
RECURSIVE write_features_absolute(_, _, _)
write_features_absolute(self, features, prev_position) ==
    Then(self,
        IF features = <<>> THEN self
        ELSE LET feature == Head(features)
                 s1 == write_feature(self, feature, feature.position)
             IN  write_features_absolute(s1, Tail(features), feature.position))

\* for feature in record.features().iter() { ... } with its prev_position.
\* usize::from(feature.position()) - prev_position overflows when the
\* position is less than prev_position: a panic in a build with overflow
\* checks, the wrapped difference in a build without.
RECURSIVE write_features(_, _, _)
write_features(self, features, prev_position) ==
    Then(self,
        IF features = <<>> THEN self
        ELSE LET feature == Head(features)
                 position == feature.position - prev_position
                 s1 == IF position < 0 /\ self.overflow_checks
                       THEN Panic(self, "overflow")
                       ELSE write_feature(self, feature, position)
             IN  write_features(s1, Tail(features), feature.position))

\* for &score in record.quality_scores().as_ref() { ... }
RECURSIVE write_quality_scores(_, _)
write_quality_scores(self, scores) ==
    Then(self,
        IF scores = <<>> THEN self
        ELSE LET s1 == write_quality_score(self, Head(scores))
             IN  write_quality_scores(s1, Tail(scores)))

\* for &base in record.bases().as_ref() { ... }
RECURSIVE write_bases(_, _)
write_bases(self, bases) ==
    Then(self,
        IF bases = <<>> THEN self
        ELSE LET s1 == write_base(self, Head(bases))
             IN  write_bases(s1, Tail(bases)))

write_mapped_read(self, record) ==
    Then(self,
        LET s1 == write_number_of_read_features(self, Len(record.features))
            s2 == write_features(s1, record.features, 0)
            s3 == write_mapping_quality(s2, record.mapping_quality)
        IN  IF are_quality_scores_stored_as_array(record.cram_flags)
            THEN write_quality_scores(s3, record.quality_scores)
            ELSE s3)

\* write_unmapped_read taking the branch of a mapped read.
write_unmapped_read_as_mapped(self, record) ==
    write_mapped_read(self, record)

write_unmapped_read(self, record) ==
    Then(self,
        LET s1 == write_bases(self, record.bases)
        IN  IF are_quality_scores_stored_as_array(record.cram_flags)
            THEN write_quality_scores(s1, record.quality_scores)
            ELSE s1)

\* The assignment made whether or not a field of the record failed before
\* it.
set_prev_alignment_start_on_error(self, alignment_start) ==
    [self EXCEPT !.prev_alignment_start = alignment_start]

\* self.prev_alignment_start = record.alignment_start(), the last statement
\* of write_record.
set_prev_alignment_start(self, alignment_start) ==
    IF self.status = "Ok"
    THEN [self EXCEPT !.prev_alignment_start = alignment_start]
    ELSE self

write_record(self, record) ==
    Then(self,
        LET s1 == write_bam_bit_flags(self, record.bam_flags)
            s2 == write_cram_bit_flags(s1, record.cram_flags)
            s3 == write_positional_data(s2, record)
            s4 == IF preservation_map.read_names_included
                  THEN write_read_name(s3, record.read_name)
                  ELSE s3
            s5 == write_mate_data(s4, record)
            s6 == write_tag_data(s5, record)
            s7 == IF is_unmapped(record.bam_flags)
                  THEN write_unmapped_read(s6, record)
                  ELSE write_mapped_read(s6, record)
        IN  set_prev_alignment_start(s7, record.alignment_start))

(***************************************************************************)
(* Headers, writers and records the Writer is run on.                      *)
(***************************************************************************)
\* Bounds of the writer's inputs.
\* Alignment starts are None or Some(1..MaxPosition).
MaxPosition == 3
\* write_record calls on one Writer (one slice).
MaxRecords == 3
\* Reads have 1..MaxReadLength bases.
MaxReadLength == 2
\* Features sit at in-read positions 1..MaxFeaturePosition.
MaxFeaturePosition == 2

block_content_id(series) == CHOOSE i \in DOMAIN DataSeriesList : DataSeriesList[i] = series

ByteArraySeries ==
    { "ReadNames", "StretchesOfBases", "StretchesOfQualityScores", "Insertion", "SoftClip" }

\* The encoding the header gives a series: its own external block.
default_encoding(series) ==
    IF series \in ByteArraySeries
    THEN <<"ByteArrayStop", 0, block_content_id(series)>>
    ELSE <<"External", block_content_id(series)>>

\* Two tag keys, NH:C and CO:Z, with a serialized value each.
KeyNH == << 78, 72, 67 >>
KeyCO == << 67, 79, 90 >>
TagKeys == { KeyNH, KeyCO }
FieldNH == [key |-> KeyNH, value |-> << 1 >>]
FieldCO == [key |-> KeyCO, value |-> << 120, 0 >>]

default_tag_encoding(key) ==
    <<"ByteArrayLen", <<"External", key_id(key)>>, <<"External", key_id(key)>>>>

AllBlocks == { block_content_id(s) : s \in DataSeries } \cup { key_id(k) : k \in TagKeys }

Bases5 == << "A", "C", "G", "T", "N" >>

\* SubstitutionMatrix::default: every row lists the other four bases in the
\* order A, C, G, T, N.
default_substitution_matrix ==
    [ r \in { "A", "C", "G", "T", "N" } |->
        SelectSeq(Bases5, LAMBDA b : b # r) ]

\* A CompressionHeader: absent is the set of data series without an
\* encoding, no_tag the set of tag keys without one, and `other` maps some
\* series to the encoding they get instead of the default.
Header(read_names_included, ap_data_series_delta, tag_ids_dictionary, absent, no_tag, other) ==
    [ preservation_map |->
        [ read_names_included |-> read_names_included,
          ap_data_series_delta |-> ap_data_series_delta,
          substitution_matrix |-> default_substitution_matrix,
          tag_ids_dictionary |-> tag_ids_dictionary ],
      data_series_encoding_map |->
        [ s \in DataSeries |->
            IF s \in absent THEN NoEncoding
            ELSE IF s \in DOMAIN other THEN other[s]
            ELSE default_encoding(s) ],
      tag_encoding_map |->
        [ id \in { key_id(k) : k \in TagKeys \ no_tag } |->
            default_tag_encoding(CHOOSE k \in TagKeys : key_id(k) = id) ] ]

NoOther == [ s \in {} |-> NoEncoding ]

open_blocks(ids) == [ id \in ids |-> <<>> ]

\* The tag IDs dictionaries of the headers.
TagDictionaries ==
    { << <<>>, <<KeyNH>>, <<KeyNH, KeyCO>> >>,
      << <<KeyCO, KeyNH>>, <<KeyNH, KeyCO>>, <<KeyNH, KeyCO>> >>,
      << <<KeyNH>> >> }

TagLists == { <<>>, <<FieldNH>>, <<FieldNH, FieldCO>>, <<FieldCO, FieldNH>> }

\* Features: every kind with a value.
FeatureValues ==
    { <<"Bases", <<"A", "C">>>>, <<"Scores", <<30, 31>>>>, <<"ReadBase", <<"G", 20>>>>,
      <<"Substitution", <<"Bases", "A", "T">>>>, <<"Substitution", <<"Code", 2>>>>,
      <<"Insertion", <<"T">>>>, <<"Deletion", 3>>, <<"InsertBase", "N">>,
      <<"QualityScore", 40>>, <<"ReferenceSkip", 5>>, <<"SoftClip", <<"C", "G">>>>,
      <<"Padding", 1>>, <<"HardClip", 2>> }

Features ==
    { [kind |-> fv[1], position |-> p, value |-> fv[2]] :
        fv \in FeatureValues, p \in 1..MaxFeaturePosition }

PairFeatures == { f \in Features : f.kind \in { "Deletion", "ReadBase" } }

FeatureLists ==
    { <<>> } \cup { <<f>> : f \in Features }
             \cup { <<f, g>> : f \in PairFeatures, g \in PairFeatures }

\* Which of the optional fields of a record are present: none, all, every
\* other one.
OptionPatterns ==
    { [i \in 1..7 |-> FALSE], [i \in 1..7 |-> TRUE],
      [i \in 1..7 |-> i % 2 = 1], [i \in 1..7 |-> i % 2 = 0] }

opt(present, v) == IF present THEN Some(v) ELSE None

\* The quality scores of a record: one per base of read_length when the
\* CRAM flags say they are stored as an array, else none.
quality_scores_of(cram_flags, read_length) ==
    IF are_quality_scores_stored_as_array(cram_flags)
    THEN [i \in 1..read_length |-> 30 + i] ELSE <<>>

\* The bases of a record: read_length of them for an unmapped read, none for
\* a mapped one (its bases are in its features).
bases_of(bam_flags, read_length) ==
    IF is_unmapped(bam_flags)
    THEN [i \in 1..read_length |-> Bases5[i]] ELSE <<>>

\* A Record, its quality scores and bases as above.
Record(bam_flags, cram_flags, alignment_start, read_length, pattern, tags, features) ==
    [ bam_flags |-> bam_flags,
      cram_flags |-> cram_flags,
      reference_sequence_id |-> opt(pattern[1], 1),
      read_length |-> read_length,
      alignment_start |-> alignment_start,
      read_group_id |-> opt(pattern[2], 0),
      read_name |-> opt(pattern[3], << 114, 49 >>),
      next_mate_flags |-> 1,
      next_fragment_reference_sequence_id |-> opt(pattern[4], 2),
      next_mate_alignment_start |-> opt(pattern[5], 7),
      template_size |-> -5,
      distance_to_next_fragment |-> opt(pattern[7], 1),
      tags |-> tags,
      features |-> IF is_unmapped(bam_flags) THEN <<>> ELSE features,
      mapping_quality |-> opt(pattern[6], 60),
      quality_scores |-> quality_scores_of(cram_flags, read_length),
      bases |-> bases_of(bam_flags, read_length) ]

Positions == { None } \cup { Some(p) : p \in 1..MaxPosition }

\* Records of a slice: every alignment start, mapped and unmapped.
SliceRecords ==
    { Record(bf, 1, a, 1, [i \in 1..7 |-> TRUE], <<>>, <<>>) :
        bf \in { 0, 4 }, a \in Positions }

AllPresent == [i \in 1..7 |-> TRUE]

\* Records of every shape: all flags, optional fields and tags, without
\* features and with two of them.
ShapeRecords ==
    { Record(bf, cf, a, rl, pat, tags, fs) :
        bf \in { 0, 4 }, cf \in 0..3, a \in { None, Some(MaxPosition) },
        rl \in 1..MaxReadLength, pat \in OptionPatterns, tags \in TagLists,
        fs \in { <<>>, << [kind |-> "Deletion", position |-> 1, value |-> 3],
                          [kind |-> "ReadBase", position |-> 2, value |-> <<"G", 20>>] >> } }

\* Mapped records with every list of features.
FeatureRecords ==
    { Record(0, cf, Some(MaxPosition), rl, AllPresent, <<>>, fs) :
        cf \in 0..1, rl \in 1..MaxReadLength, fs \in FeatureLists }

Records == ShapeRecords \cup FeatureRecords

\* The builds a call is run in: with and without overflow checks when the
\* feature positions of the record decrease somewhere, else it makes no
\* difference.
OverflowModes(record) ==
    IF \E i \in 1..(Len(record.features) - 1) :
           record.features[i + 1].position < record.features[i].position
    THEN BOOLEAN ELSE { TRUE }

NoCall == [called |-> FALSE, record |-> Record(0, 0, None, 1, [i \in 1..7 |-> FALSE], <<>>, <<>>),
           prev_alignment_start |-> None, overflow_checks |-> TRUE]

NoResult == [status |-> "Ok", kind |-> "", error |-> NoError]

\* Writer::new(compression_header, _, external_data_writers,
\*             reference_sequence_id, initial_alignment_start)
Writer_new(header, writers, id, start) ==
    /\ compression_header = header
    /\ external_data_writers = writers
    /\ reference_sequence_id = id
    /\ initial_alignment_start = start
    /\ prev_alignment_start = start
    /\ last_call = NoCall
    /\ result = NoResult
    /\ emitted = <<>>
    /\ written = <<>>
    /\ calls = 0

\* One call of Writer::write_record.  What it wrote to the external blocks
\* before an error stays written.
WriteRecord(record, overflow_checks) ==
    /\ result.status # "Panic"
    /\ LET self == [ external_data_writers |-> external_data_writers,
                     reference_sequence_id |-> reference_sequence_id,
                     prev_alignment_start |-> prev_alignment_start,
                     overflow_checks |-> overflow_checks,
                     status |-> "Ok", kind |-> "", error |-> NoError, log |-> <<>> ]
           done == write_record(self, record)
       IN  /\ external_data_writers' = done.external_data_writers
           /\ prev_alignment_start' = done.prev_alignment_start
           /\ result' = [status |-> done.status, kind |-> done.kind, error |-> done.error]
           /\ emitted' = done.log
           /\ written' = IF done.status = "Ok"
                         THEN Append(written, record.alignment_start) ELSE written
    /\ last_call' = [called |-> TRUE, record |-> record,
                     prev_alignment_start |-> prev_alignment_start,
                     overflow_checks |-> overflow_checks]
    /\ calls' = calls + 1
    /\ UNCHANGED <<compression_header, reference_sequence_id, initial_alignment_start>>

ModelIdle ==
    /\ max_sym = 0
    /\ total_freq = Model_new(0).total_freq
    /\ symbols = Model_new(0).symbols
    /\ frequencies = Model_new(0).frequencies
    /\ last_decode = NoDecode
    /\ decode_calls = 0
    /\ bursts = 0

WriterIdle ==
    Writer_new(Header(TRUE, TRUE, << <<>> >>, {}, {}, NoOther), open_blocks(AllBlocks),
               <<"None">>, None)

\* A slice: up to MaxRecords records written by one Writer whose header is
\* complete and whose blocks are all open.
SliceInit ==
    /\ ModelIdle
    /\ \E ap \in BOOLEAN, start \in Positions :
          Writer_new(Header(TRUE, ap, << <<>> >>, {}, {}, NoOther), open_blocks(AllBlocks),
                     <<"Some", 0>>, start)

SliceNext ==
    \E record \in SliceRecords :
        /\ calls < MaxRecords
        /\ WriteRecord(record, TRUE)
        /\ UNCHANGED modelVars

SpecSlice == SliceInit /\ [][SliceNext]_vars

\* One record of any shape written by a new Writer whose header is complete
\* and whose blocks are all open.
RecordInit ==
    /\ ModelIdle
    /\ \E rn \in BOOLEAN, ap \in BOOLEAN, td \in TagDictionaries,
          id \in { <<"Some", 0>>, <<"Many">> } :
          Writer_new(Header(rn, ap, td, {}, {}, NoOther), open_blocks(AllBlocks),
                     id, Some(1))

RecordNext ==
    \E record \in Records : \E overflow_checks \in OverflowModes(record) :
        /\ calls = 0
        /\ WriteRecord(record, overflow_checks)
        /\ UNCHANGED modelVars

SpecRecord == RecordInit /\ [][RecordNext]_vars

(***************************************************************************)
(* writer/data_container/compression_header/encoding.rs                    *)
(***************************************************************************)
\* A Vec<u8> that is written to, with the io::Result of the writes so far.
\* A u32 is kept as the i32 of the same 32 bits: it is negative exactly when
\* i32::try_from fails on it.
EmptyBuf == [status |-> "Ok", kind |-> "", error |-> NoError, bytes |-> <<>>]

write_all(writer, buf) ==
    IF writer.status = "Ok" THEN [writer EXCEPT !.bytes = @ \o buf] ELSE writer

\* The ITF8 bytes of an i32: one to five bytes, the leading one bits of the
\* first byte giving the number of bytes that follow.  A negative value has
\* bit 31 set and takes five bytes.
itf8(value) ==
    IF value >= 0 /\ value < 128 THEN << value >>
    ELSE IF value >= 0 /\ value < 16384
         THEN << 128 + (value \div 256), value % 256 >>
    ELSE IF value >= 0 /\ value < 2097152
         THEN << 192 + (value \div 65536), (value \div 256) % 256, value % 256 >>
    ELSE IF value >= 0 /\ value < 268435456
         THEN << 224 + (value \div 16777216), (value \div 65536) % 256,
                 (value \div 256) % 256, value % 256 >>
    ELSE << 240 + ((value \div 268435456) % 16), (value \div 1048576) % 256,
            (value \div 4096) % 256, (value \div 16) % 256, value % 16 >>

write_itf8(writer, value) == write_all(writer, itf8(value))

\* i32::from(encoding::Kind)
Kind(name) ==
    CASE name = "Null" -> 0
      [] name = "External" -> 1
      [] name = "Golomb" -> 2
      [] name = "Huffman" -> 3
      [] name = "ByteArrayLen" -> 4
      [] name = "ByteArrayStop" -> 5
      [] name = "Beta" -> 6
      [] name = "Subexp" -> 7
      [] name = "GolombRice" -> 8
      [] name = "Gamma" -> 9

\* write_args without the length before the args.
write_args_no_length(writer, buf) ==
    IF ~i32_try_from_ok(Len(buf)) THEN Fail(writer, "InvalidInput", TryFromIntError)
    ELSE write_all(writer, buf)

write_args(writer, buf) ==
    IF ~i32_try_from_ok(Len(buf)) THEN Fail(writer, "InvalidInput", TryFromIntError)
    ELSE write_all(write_itf8(writer, Len(buf)), buf)

\* write_itf8(writer, kind)?; write_args(writer, &args)?; Ok(()) once the
\* args are built; an error met while they were built is returned before
\* anything is written.
write_kind_and_args(writer, name, args) ==
    IF args.status # "Ok" THEN Fail(writer, args.kind, args.error)
    ELSE write_args(write_itf8(writer, Kind(name)), args.bytes)

\* write_null_encoding that writes an empty args block after the kind tag.
write_null_encoding_with_args(writer) == write_args(write_itf8(writer, Kind("Null")), <<>>)

write_null_encoding(writer) == write_itf8(writer, Kind("Null"))

write_external_encoding(writer, content_id) ==
    write_kind_and_args(writer, "External", write_itf8(EmptyBuf, content_id))

write_golomb_encoding(writer, offset, m) ==
    write_kind_and_args(writer, "Golomb",
                        write_itf8(write_itf8(EmptyBuf, offset), m))

\* for &symbol in alphabet { write_itf8(&mut args, symbol)?; }
RECURSIVE write_symbols(_, _)
write_symbols(args, alphabet) ==
    IF alphabet = <<>> THEN args
    ELSE write_symbols(write_itf8(args, Head(alphabet)), Tail(alphabet))

\* for &len in bit_lens { let len = i32::try_from(len)...?; write_itf8(&mut args, len)?; }
RECURSIVE write_bit_lens(_, _)
write_bit_lens(args, bit_lens) ==
    IF bit_lens = <<>> \/ args.status # "Ok" THEN args
    ELSE IF ~i32_try_from_ok(Head(bit_lens))
         THEN Fail(args, "InvalidInput", TryFromIntError)
         ELSE write_bit_lens(write_itf8(args, Head(bit_lens)), Tail(bit_lens))

write_huffman_encoding(writer, alphabet, bit_lens) ==
    LET a1 == IF ~i32_try_from_ok(Len(alphabet))
              THEN Fail(EmptyBuf, "InvalidInput", TryFromIntError)
              ELSE write_symbols(write_itf8(EmptyBuf, Len(alphabet)), alphabet)
        a2 == IF a1.status # "Ok" THEN a1
              ELSE IF ~i32_try_from_ok(Len(bit_lens))
                   THEN Fail(a1, "InvalidInput", TryFromIntError)
                   ELSE write_bit_lens(write_itf8(a1, Len(bit_lens)), bit_lens)
    IN  write_kind_and_args(writer, "Huffman", a2)

write_byte_array_stop_encoding(writer, stop_byte, content_id) ==
    write_kind_and_args(writer, "ByteArrayStop",
                        write_itf8(write_all(EmptyBuf, << stop_byte >>), content_id))

write_beta_encoding(writer, offset, len) ==
    LET a1 == write_itf8(EmptyBuf, offset)
        a2 == IF ~i32_try_from_ok(len) THEN Fail(a1, "InvalidInput", TryFromIntError)
              ELSE write_itf8(a1, len)
    IN  write_kind_and_args(writer, "Beta", a2)

write_subexp_encoding(writer, offset, k) ==
    write_kind_and_args(writer, "Subexp", write_itf8(write_itf8(EmptyBuf, offset), k))

write_golomb_rice_encoding(writer, offset, log2_m) ==
    write_kind_and_args(writer, "GolombRice",
                        write_itf8(write_itf8(EmptyBuf, offset), log2_m))

write_gamma_encoding(writer, offset) ==
    write_kind_and_args(writer, "Gamma", write_itf8(EmptyBuf, offset))

\* An Encoding is <<kind, its fields...>>.  write_byte_array_len_encoding
\* writes its two sub-encodings to args with write_encoding.
RECURSIVE write_encoding(_, _)
write_byte_array_len_encoding(writer, len_encoding, value_encoding) ==
    LET a1 == write_encoding(EmptyBuf, len_encoding)
        a2 == IF a1.status # "Ok" THEN a1 ELSE write_encoding(a1, value_encoding)
    IN  write_kind_and_args(writer, "ByteArrayLen", a2)

write_encoding(writer, encoding) ==
    CASE encoding[1] = "Null" -> write_null_encoding(writer)
      [] encoding[1] = "External" -> write_external_encoding(writer, encoding[2])
      [] encoding[1] = "Golomb" -> write_golomb_encoding(writer, encoding[2], encoding[3])
      [] encoding[1] = "Huffman" -> write_huffman_encoding(writer, encoding[2], encoding[3])
      [] encoding[1] = "ByteArrayLen" ->
           write_byte_array_len_encoding(writer, encoding[2], encoding[3])
      [] encoding[1] = "ByteArrayStop" ->
           write_byte_array_stop_encoding(writer, encoding[2], encoding[3])
      [] encoding[1] = "Beta" -> write_beta_encoding(writer, encoding[2], encoding[3])
      [] encoding[1] = "Subexp" -> write_subexp_encoding(writer, encoding[2], encoding[3])
      [] encoding[1] = "GolombRice" ->
           write_golomb_rice_encoding(writer, encoding[2], encoding[3])
      [] encoding[1] = "Gamma" -> write_gamma_encoding(writer, encoding[2])

(***************************************************************************)
(* write_encoding on its own, writing one Encoding to an empty Vec.        *)
(***************************************************************************)
\* A Huffman alphabet has 0..MaxAlphabet symbols.
MaxAlphabet == 2

HuffmanEncodings ==
    { <<"Huffman", [i \in 1..n |-> 64 + i], bit_lens>> :
        n \in 0..MaxAlphabet,
        bit_lens \in UNION { [1..k -> { 0, 1, -1 }] : k \in 0..MaxAlphabet } }

\* Every kind but ByteArrayLen; -1 as a u32 is u32::MAX.
WireFlat ==
    { <<"Null">> }
    \cup { <<"External", id>> : id \in { 5, 13, 21, 128, -1 } }
    \cup { <<"Golomb", offset, 10>> : offset \in { 0, 1 } }
    \cup HuffmanEncodings
    \cup { <<"ByteArrayStop", stop_byte, id>> : stop_byte \in { 0, 255 }, id \in { 8, 300 } }
    \cup { <<"Beta", offset, len>> : offset \in { 0, -1 }, len \in { 8, -1 } }
    \cup { <<"Subexp", 0, 1>>, <<"GolombRice", 1, 3>>, <<"Gamma", 1>>, <<"Gamma", 70000>> }

WireEncodings ==
    WireFlat
    \cup { <<"ByteArrayLen", l, v>> : l \in WireFlat, v \in WireFlat }
    \cup { <<"ByteArrayLen", <<"ByteArrayLen", l, <<"External", 13>>>>, v>> :
             l \in { <<"External", 5>>, <<"Null">> },
             v \in { <<"External", 21>>, <<"Beta", 0, -1>> } }

WriteEncoding(encoding) ==
    /\ calls = 0
    /\ LET done == write_encoding(EmptyBuf, encoding)
       IN  /\ result' = [status |-> done.status, kind |-> done.kind, error |-> done.error]
           /\ emitted' = done.bytes
    /\ last_call' = [called |-> TRUE, function |-> "write_encoding", encoding |-> encoding]
    /\ calls' = calls + 1
    /\ UNCHANGED <<compression_header, external_data_writers, reference_sequence_id,
                   prev_alignment_start, initial_alignment_start, written>>
    /\ UNCHANGED modelVars

EncodingInit == ModelIdle /\ WriterIdle

EncodingNext == \E encoding \in WireEncodings : WriteEncoding(encoding)

SpecEncoding == EncodingInit /\ [][EncodingNext]_vars

(***************************************************************************)
(* reader/data_container/compression_header: preservation_map.rs and       *)
(* data_series_encoding_map.rs                                             *)
(***************************************************************************)
\* What a read from the front of a buffer returns: the io::Result, the value
\* read and the bytes left in the buffer.
Ok(value, rest) == [status |-> "Ok", kind |-> "", error |-> NoError, value |-> value, rest |-> rest]
Err(kind, error) == [status |-> "Err", kind |-> kind, error |-> error, value |-> <<>>, rest |-> <<>>]
UnexpectedEof == Err("UnexpectedEof", NoError)

\* reader::num::get_itf8: the i32 that itf8 wrote.
get_itf8(src) ==
    IF src = <<>> THEN UnexpectedEof
    ELSE LET b == src[1]
             more == IF b < 128 THEN 0 ELSE IF b < 192 THEN 1 ELSE IF b < 224 THEN 2
                     ELSE IF b < 240 THEN 3 ELSE 4
         IN  IF Len(src) < more + 1 THEN UnexpectedEof
             ELSE Ok(CASE more = 0 -> b
                       [] more = 1 -> (b % 64) * 256 + src[2]
                       [] more = 2 -> (b % 32) * 65536 + src[2] * 256 + src[3]
                       [] more = 3 -> (b % 16) * 16777216 + src[2] * 65536 + src[3] * 256 + src[4]
                       [] more = 4 -> (IF b % 16 >= 8 THEN (b % 16) - 16 ELSE b % 16) * 268435456
                                      + src[2] * 1048576 + src[3] * 4096 + src[4] * 16
                                      + (src[5] % 16),
                    SubSeq(src, more + 2, Len(src)))

\* get_itf8(src).and_then(|n| usize::try_from(n)...)?, the check of
\* src.remaining() and src.split_to(data_len): the data_len bytes that follow
\* the length, and the bytes after them as rest.
split_data(src) ==
    LET data_len == get_itf8(src)
    IN  IF data_len.status # "Ok" THEN data_len
        ELSE IF data_len.value < 0 THEN Err("InvalidData", TryFromIntError)
        ELSE IF Len(data_len.rest) < data_len.value THEN UnexpectedEof
        ELSE Ok(SubSeq(data_len.rest, 1, data_len.value),
                SubSeq(data_len.rest, data_len.value + 1, Len(data_len.rest)))

\* The two bytes of a key, as the buffer holds them.
take_key(src) ==
    IF Len(src) < 2 THEN UnexpectedEof ELSE Ok(<< src[1], src[2] >>, SubSeq(src, 3, Len(src)))

\* preservation_map::Key::try_from([u8; 2]): RN, AP, RR, SM, TD.
PreservationKeys ==
    [ RN |-> << 82, 78 >>, AP |-> << 65, 80 >>, RR |-> << 82, 82 >>,
      SM |-> << 83, 77 >>, TD |-> << 84, 68 >> ]

preservation_map_get_key(src) ==
    LET buf == take_key(src)
    IN  IF buf.status # "Ok" THEN buf
        ELSE IF \E k \in DOMAIN PreservationKeys : PreservationKeys[k] = buf.value
             THEN Ok(CHOOSE k \in DOMAIN PreservationKeys : PreservationKeys[k] = buf.value,
                     buf.rest)
             ELSE Err("InvalidData", Message("invalid preservation map key"))

get_bool(src) ==
    IF src = <<>> THEN UnexpectedEof
    ELSE CASE src[1] = 0 -> Ok(FALSE, Tail(src))
           [] src[1] = 1 -> Ok(TRUE, Tail(src))
           [] OTHER -> Err("InvalidData", Message("invalid bool value"))

\* SubstitutionMatrix::try_from([u8; 5]): the matrix is kept as its five
\* bytes.
get_substitution_matrix(src) ==
    IF Len(src) < 5 THEN UnexpectedEof
    ELSE Ok(SubSeq(src, 1, 5), SubSeq(src, 6, Len(src)))

\* Tag::try_from([u8; 2]) and Type::try_from(u8) succeed: a letter and a
\* letter or digit, and one of A c C s S i I f Z H B.
is_tag(t0, t1) ==
    /\ t0 \in (65..90) \cup (97..122)
    /\ t1 \in (48..57) \cup (65..90) \cup (97..122)
is_type(ty) == ty \in { 65, 99, 67, 115, 83, 105, 73, 102, 90, 72, 66 }

\* for chunk in keys_buf.chunks_exact(3): the keys of one line; bytes left
\* over after the last whole chunk are passed over.
RECURSIVE get_line(_, _)
get_line(keys_buf, line) ==
    IF Len(keys_buf) < 3 THEN Ok(line, <<>>)
    ELSE IF ~is_tag(keys_buf[1], keys_buf[2])
         THEN Err("InvalidData", Message("invalid tag"))
    ELSE IF ~is_type(keys_buf[3])
         THEN Err("InvalidData", Message("invalid type"))
    ELSE get_line(SubSeq(keys_buf, 4, Len(keys_buf)),
                  Append(line, << keys_buf[1], keys_buf[2], keys_buf[3] >>))

\* while let Some(i) = buf.iter().position(|&b| b == NUL)
RECURSIVE get_lines(_, _)
get_lines(buf, dictionary) ==
    IF \A i \in DOMAIN buf : buf[i] # 0 THEN Ok(dictionary, <<>>)
    ELSE LET i == CHOOSE j \in DOMAIN buf : buf[j] = 0 /\ \A k \in 1..(j - 1) : buf[k] # 0
             line == get_line(SubSeq(buf, 1, i - 1), <<>>)
         IN  IF line.status # "Ok" THEN line
             ELSE get_lines(SubSeq(buf, i + 1, Len(buf)), Append(dictionary, line.value))

get_tag_ids_dictionary(src) ==
    LET buf == split_data(src)
    IN  IF buf.status # "Ok" THEN buf
        ELSE LET dictionary == get_lines(buf.value, <<>>)
             IN  IF dictionary.status # "Ok" THEN dictionary
                 ELSE Ok(dictionary.value, buf.rest)

\* The loop of get_preservation_map: for _ in 0..map_len, each entry a key
\* and the value its key asks for; map holds the five variables of the
\* function.
RECURSIVE preservation_map_entries(_, _, _)
preservation_map_entries(buf, map_len, map) ==
    IF map_len <= 0 THEN Ok(map, buf)
    ELSE LET key == preservation_map_get_key(buf)
             v == CASE key.status # "Ok" -> key
                    [] key.value \in { "RN", "AP", "RR" } -> get_bool(key.rest)
                    [] key.value = "SM" -> get_substitution_matrix(key.rest)
                    [] key.value = "TD" -> get_tag_ids_dictionary(key.rest)
         IN  IF v.status # "Ok" THEN v
             ELSE preservation_map_entries(v.rest, map_len - 1,
                    CASE key.value = "RN" -> [map EXCEPT !.read_names_included = v.value]
                      [] key.value = "AP" -> [map EXCEPT !.ap_data_series_delta = v.value]
                      [] key.value = "RR" -> [map EXCEPT !.reference_required = v.value]
                      [] key.value = "SM" -> [map EXCEPT !.substitution_matrix = Some(v.value)]
                      [] key.value = "TD" -> [map EXCEPT !.tag_ids_dictionary = Some(v.value)])

\* get_preservation_map that takes the default substitution matrix, and
\* false for the three flags, when the entries have none.
get_preservation_map_lenient(src) ==
    LET buf == split_data(src)
        map_len == get_itf8(buf.value)
        read == preservation_map_entries(map_len.rest, map_len.value,
                    [ read_names_included |-> FALSE,
                      ap_data_series_delta |-> FALSE,
                      reference_required |-> FALSE,
                      substitution_matrix |-> Some(<< 27, 27, 27, 27, 27 >>),
                      tag_ids_dictionary |-> None ])
    IN  IF buf.status # "Ok" THEN buf
        ELSE IF map_len.status # "Ok" THEN map_len
        ELSE IF read.status # "Ok" THEN read
        ELSE IF ~is_some(read.value.tag_ids_dictionary)
             THEN Err("InvalidData", Message("missing tag IDs dictionary"))
        ELSE Ok([ read.value EXCEPT
                    !.substitution_matrix = unwrap(@),
                    !.tag_ids_dictionary = unwrap(@) ],
                buf.rest)

get_preservation_map(src) ==
    LET buf == split_data(src)
        map_len == get_itf8(buf.value)
        read == preservation_map_entries(map_len.rest, map_len.value,
                    [ read_names_included |-> TRUE,
                      ap_data_series_delta |-> TRUE,
                      reference_required |-> TRUE,
                      substitution_matrix |-> None,
                      tag_ids_dictionary |-> None ])
    IN  IF buf.status # "Ok" THEN buf
        ELSE IF map_len.status # "Ok" THEN map_len
        ELSE IF read.status # "Ok" THEN read
        ELSE IF ~is_some(read.value.substitution_matrix)
             THEN Err("InvalidData", Message("missing substitution matrix"))
        ELSE IF ~is_some(read.value.tag_ids_dictionary)
             THEN Err("InvalidData", Message("missing tag IDs dictionary"))
        ELSE Ok([ read.value EXCEPT
                    !.substitution_matrix = unwrap(@),
                    !.tag_ids_dictionary = unwrap(@) ],
                buf.rest)
\* get_encoding of reader/data_container/compression_header/encoding.rs: the
\* Encoding that write_encoding wrote.  The args are read as a length and
\* that many bytes, and the fields of the kind are read from them.
RECURSIVE get_itf8s(_, _, _)
get_itf8s(src, n, values) ==
    IF n <= 0 THEN Ok(values, src)
    ELSE LET v == get_itf8(src)
         IN  IF v.status # "Ok" THEN v
             ELSE get_itf8s(v.rest, n - 1, Append(values, v.value))

KindNames ==
    << "External", "Golomb", "Huffman", "ByteArrayLen", "ByteArrayStop", "Beta", "Subexp",
       "GolombRice", "Gamma" >>

RECURSIVE get_encoding(_)
get_encoding_args(name, args) ==
    CASE name = "ByteArrayLen" ->
           LET len_encoding == get_encoding(args)
               value_encoding == get_encoding(len_encoding.rest)
           IN  IF len_encoding.status # "Ok" THEN len_encoding
               ELSE IF value_encoding.status # "Ok" THEN value_encoding
               ELSE Ok(<< name, len_encoding.value, value_encoding.value >>, <<>>)
      [] name = "ByteArrayStop" ->
           IF args = <<>> THEN UnexpectedEof
           ELSE LET id == get_itf8(Tail(args))
                IN  IF id.status # "Ok" THEN id ELSE Ok(<< name, args[1], id.value >>, <<>>)
      [] name = "Huffman" ->
           LET alphabet_len == get_itf8(args)
               alphabet == get_itf8s(alphabet_len.rest, alphabet_len.value, <<>>)
               bit_lens_len == get_itf8(alphabet.rest)
               bit_lens == get_itf8s(bit_lens_len.rest, bit_lens_len.value, <<>>)
           IN  IF alphabet_len.status # "Ok" THEN alphabet_len
               ELSE IF alphabet.status # "Ok" THEN alphabet
               ELSE IF bit_lens_len.status # "Ok" THEN bit_lens_len
               ELSE IF bit_lens.status # "Ok" THEN bit_lens
               ELSE Ok(<< name, alphabet.value, bit_lens.value >>, <<>>)
      [] OTHER ->
           LET fields == get_itf8s(args, IF name \in { "External", "Gamma" } THEN 1 ELSE 2, <<>>)
           IN  IF fields.status # "Ok" THEN fields ELSE Ok(<< name >> \o fields.value, <<>>)

get_encoding(src) ==
    LET kind == get_itf8(src)
        args == split_data(kind.rest)
        encoding == get_encoding_args(KindNames[kind.value], args.value)
    IN  IF kind.status # "Ok" THEN kind
        ELSE IF kind.value = Kind("Null") THEN Ok(<<"Null">>, kind.rest)
        ELSE IF kind.value \notin DOMAIN KindNames
             THEN Err("InvalidData", Message("invalid encoding kind"))
        ELSE IF args.status # "Ok" THEN args
        ELSE IF encoding.status # "Ok" THEN encoding
        ELSE Ok(encoding.value, args.rest)

\* DataSeries::try_from([u8; 2]): the two letters of every data series, in
\* the order of DataSeriesList, and the two reserved keys TC and TN.
DataSeriesKeys ==
    << << 66, 70 >>, << 67, 70 >>, << 82, 73 >>, << 82, 76 >>, << 65, 80 >>, << 82, 71 >>,
       << 82, 78 >>, << 77, 70 >>, << 78, 83 >>, << 78, 80 >>, << 84, 83 >>, << 78, 70 >>,
       << 84, 76 >>, << 70, 78 >>, << 70, 67 >>, << 70, 80 >>, << 68, 76 >>, << 66, 66 >>,
       << 81, 81 >>, << 66, 83 >>, << 73, 78 >>, << 82, 83 >>, << 80, 68 >>, << 72, 67 >>,
       << 83, 67 >>, << 77, 81 >>, << 66, 65 >>, << 81, 83 >> >>
ReservedTc == << 84, 67 >>
ReservedTn == << 84, 78 >>

\* get_key that knows no reserved key.
data_series_encoding_map_get_key_no_reserved(src) ==
    LET buf == take_key(src)
    IN  IF buf.status # "Ok" THEN buf
        ELSE IF \E i \in DOMAIN DataSeriesKeys : DataSeriesKeys[i] = buf.value
             THEN Ok(DataSeriesList[CHOOSE i \in DOMAIN DataSeriesKeys :
                                        DataSeriesKeys[i] = buf.value], buf.rest)
        ELSE Err("InvalidData", Message("invalid data series"))

data_series_encoding_map_get_key(src) ==
    LET buf == take_key(src)
    IN  IF buf.status # "Ok" THEN buf
        ELSE IF \E i \in DOMAIN DataSeriesKeys : DataSeriesKeys[i] = buf.value
             THEN Ok(DataSeriesList[CHOOSE i \in DOMAIN DataSeriesKeys :
                                        DataSeriesKeys[i] = buf.value], buf.rest)
        ELSE IF buf.value = ReservedTc THEN Ok("ReservedTc", buf.rest)
        ELSE IF buf.value = ReservedTn THEN Ok("ReservedTn", buf.rest)
        ELSE Err("InvalidData", Message("invalid data series"))

\* HashMap::with_capacity(map_len as usize): a negative i32 cast to usize
\* is above isize::MAX on every target, and the table panics with a capacity
\* overflow before it allocates.
HashMap_with_capacity(map_len) ==
    IF map_len < 0
    THEN [status |-> "Panic", kind |-> "Hash table capacity overflow", error |-> NoError,
          value |-> <<>>, rest |-> <<>>]
    ELSE Ok({}, <<>>)

\* map.insert(key, encoding): the map is the set of its pairs, one per key.
insert(map, key, encoding) == { pair \in map : pair[1] # key } \cup { << key, encoding >> }

\* The loop of get_tag_encoding_map: for _ in 0..map_len, an itf8 key and an
\* encoding.
RECURSIVE tag_encoding_map_entries(_, _, _)
tag_encoding_map_entries(buf, map_len, map) ==
    IF map_len <= 0 THEN Ok(map, buf)
    ELSE LET key == get_itf8(buf)
             encoding == get_encoding(key.rest)
         IN  IF key.status # "Ok" THEN key
             ELSE IF encoding.status # "Ok" THEN encoding
             ELSE tag_encoding_map_entries(encoding.rest, map_len - 1,
                                           insert(map, key.value, encoding.value))

get_tag_encoding_map(src) ==
    LET buf == split_data(src)
        map_len == get_itf8(buf.value)
        map == HashMap_with_capacity(map_len.value)
        read == tag_encoding_map_entries(map_len.rest, map_len.value, map.value)
    IN  IF buf.status # "Ok" THEN buf
        ELSE IF map_len.status # "Ok" THEN map_len
        ELSE IF map.status # "Ok" THEN map
        ELSE IF read.status # "Ok" THEN read
        ELSE Ok(read.value, <<>>)

\* The loop of get_data_series_encoding_map: for _ in 0..map_len, a key and
\* an encoding; builder holds the encoding set for each series so far.
RECURSIVE data_series_encoding_map_entries(_, _, _)
data_series_encoding_map_entries(buf, map_len, builder) ==
    IF map_len <= 0 THEN Ok(builder, buf)
    ELSE LET key == data_series_encoding_map_get_key(buf)
             encoding == get_encoding(key.rest)
         IN  IF key.status # "Ok" THEN key
             ELSE IF encoding.status # "Ok" THEN encoding
             ELSE data_series_encoding_map_entries(encoding.rest, map_len - 1,
                    IF key.value \in { "ReservedTc", "ReservedTn" } THEN builder
                    ELSE [builder EXCEPT ![key.value] = encoding.value])

\* DataSeriesEncodingMap::builder().build(): an error when a series whose
\* encoding the map must hold has none.
data_series_encoding_map_build(builder) ==
    IF \E s \in MandatorySeries : builder[s] = NoEncoding
    THEN Err("InvalidData", Message("missing data series encoding"))
    ELSE Ok(builder, <<>>)

get_data_series_encoding_map(src) ==
    LET buf == split_data(src)
        map_len == get_itf8(buf.value)
        read == data_series_encoding_map_entries(map_len.rest, map_len.value,
                                                 [s \in DataSeries |-> NoEncoding])
    IN  IF buf.status # "Ok" THEN buf
        ELSE IF map_len.status # "Ok" THEN map_len
        ELSE IF read.status # "Ok" THEN read
        ELSE data_series_encoding_map_build(read.value)

(***************************************************************************)
(* The map readers on their own, each reading one buffer.                  *)
(***************************************************************************)
\* A map has 0..MaxEntries entries.
MaxEntries == 3

RECURSIVE Flatten(_)
Flatten(seqs) == IF seqs = <<>> THEN <<>> ELSE Head(seqs) \o Flatten(Tail(seqs))

SeqsUpTo(S, n) == UNION { [1..k -> S] : k \in 0..n }

\* Entries of a preservation map: a key and the bytes of its value.  RN with
\* a byte that is no bool and the key XX are not of the format.
PreservationEntries ==
    { [key |-> "RN", bytes |-> << 82, 78, 0 >>],
      [key |-> "RN", bytes |-> << 82, 78, 2 >>],
      [key |-> "AP", bytes |-> << 65, 80, 0 >>],
      [key |-> "RR", bytes |-> << 82, 82, 1 >>],
      [key |-> "SM", bytes |-> << 83, 77, 27, 27, 27, 27, 27 >>],
      [key |-> "TD", bytes |-> << 84, 68, 4, 67, 79, 90, 0 >>],
      [key |-> "XX", bytes |-> << 88, 88, 0 >>] }

\* The bytes of a map: the length of what follows, the number of entries and
\* the entries.  data_len and map_len are those of the entries (0), one less,
\* one more, or negative.
Framings == { [data_len |-> d, map_len |-> m] : d \in { "less", "exact", "more", "negative" },
                                                 m \in { "exact", "more", "negative" } }

MapLen(entries, framing) ==
    CASE framing.map_len = "exact" -> Len(entries)
      [] framing.map_len = "more" -> Len(entries) + 1
      [] OTHER -> -1

MapBytes(entries, framing) ==
    LET body == itf8(MapLen(entries, framing))
                \o Flatten([i \in DOMAIN entries |-> entries[i].bytes])
        data_len == CASE framing.data_len = "exact" -> Len(body)
                      [] framing.data_len = "less" -> Len(body) - 1
                      [] framing.data_len = "more" -> Len(body) + 1
                      [] OTHER -> -1
    IN  itf8(data_len) \o body

\* One call of a reader on the bytes of the entries: emitted is the map it
\* returned.
GetMap(function, entries, framing, done) ==
    /\ calls = 0
    /\ result' = [status |-> done.status, kind |-> done.kind, error |-> done.error]
    /\ emitted' = done.value
    /\ last_call' = [called |-> TRUE, function |-> function, entries |-> entries,
                     framing |-> framing, src |-> MapBytes(entries, framing)]
    /\ calls' = calls + 1
    /\ UNCHANGED <<compression_header, external_data_writers, reference_sequence_id,
                   prev_alignment_start, initial_alignment_start, written>>
    /\ UNCHANGED modelVars

GetPreservationMap(entries, framing) ==
    GetMap("get_preservation_map", entries, framing,
           get_preservation_map(MapBytes(entries, framing)))

\* Entries of a data series encoding map: the key, its two bytes and the
\* bytes of its encoding as write_encoding writes it.
MaxExtras == 2

KeyBytes(key) ==
    CASE key = "ReservedTc" -> ReservedTc
      [] key = "ReservedTn" -> ReservedTn
      [] key = "XX" -> << 88, 88 >>
      [] OTHER -> DataSeriesKeys[block_content_id(key)]

DataSeriesEntry(key, encoding) ==
    [key |-> key, encoding |-> encoding,
     bytes |-> KeyBytes(key) \o write_encoding(EmptyBuf, encoding).bytes]

\* The entries every map must have, in the order of DataSeriesList.
MandatoryEntries ==
    SelectSeq([i \in DOMAIN DataSeriesList |->
                  DataSeriesEntry(DataSeriesList[i], <<"External", i>>)],
              LAMBDA e : e.key \in MandatorySeries)

\* Entries put among them: reserved keys with an encoding, a reserved key
\* whose encoding is of no kind, a key of no series, an optional series and
\* a second entry for BF.
ExtraEntries ==
    { DataSeriesEntry("ReservedTc", <<"External", 1>>),
      DataSeriesEntry("ReservedTn", <<"ByteArrayLen", <<"External", 13>>, <<"Null">>>>),
      [key |-> "ReservedTc", encoding |-> NoEncoding, bytes |-> ReservedTc \o << 99, 0 >>],
      DataSeriesEntry("XX", <<"External", 1>>),
      DataSeriesEntry("MappingQualities", <<"External", 26>>),
      DataSeriesEntry("BamBitFlags", <<"ByteArrayStop", 0, 30>>) }

DataSeriesEntryLists ==
    { SubSeq(base, 1, k) \o extras \o SubSeq(base, k + 1, Len(base)) :
        base \in { MandatoryEntries, Tail(MandatoryEntries) },
        k \in { 0, 3, 5 },
        extras \in SeqsUpTo(ExtraEntries, MaxExtras) }

GetDataSeriesEncodingMap(entries, framing) ==
    GetMap("get_data_series_encoding_map", entries, framing,
           get_data_series_encoding_map(MapBytes(entries, framing)))

\* Entries of a tag encoding map: the itf8 of the key and the bytes of its
\* encoding as write_encoding writes it; one entry has no encoding.
TagEntry(key, encoding) ==
    [key |-> key_id(key), encoding |-> encoding,
     bytes |-> itf8(key_id(key)) \o write_encoding(EmptyBuf, encoding).bytes]

TagEntries ==
    { TagEntry(<< 78, 72, 67 >>, <<"External", 1>>),
      TagEntry(<< 78, 72, 67 >>, <<"ByteArrayLen", <<"External", 2>>, <<"External", 3>>>>),
      TagEntry(<< 67, 79, 90 >>, <<"ByteArrayStop", 0, 4>>),
      [key |-> 5, encoding |-> NoEncoding, bytes |-> << 5, 99, 0 >>] }

GetTagEncodingMap(entries, framing) ==
    GetMap("get_tag_encoding_map", entries, framing,
           get_tag_encoding_map(MapBytes(entries, framing)))

MapsInit == ModelIdle /\ WriterIdle

MapsNext ==
    \E framing \in Framings :
        \/ \E entries \in SeqsUpTo(PreservationEntries, MaxEntries) :
              GetPreservationMap(entries, framing)
        \/ \E entries \in DataSeriesEntryLists :
              GetDataSeriesEncodingMap(entries, framing)
        \/ \E entries \in SeqsUpTo(TagEntries, MaxEntries) :
              GetTagEncodingMap(entries, framing)

SpecMaps == MapsInit /\ [][MapsNext]_vars

(***************************************************************************)
(* data_container/builder.rs and substitution_matrix/builder.rs: the       *)
(* statistics pass over the records that precedes the writing of a slice.  *)
(***************************************************************************)
\* Histogram::hit: one more observation of the (reference base, read base)
\* pair.
hit(histogram, reference_base, read_base) ==
    [histogram EXCEPT ![<< reference_base, read_base >>] = @ + 1]

\* Builder::default(): no observation; status is Ok until update panics.
substitution_matrix_Builder ==
    [ histogram |-> [pair \in { << Bases5[i], Bases5[j] >> : i, j \in 1..5 } |-> 0],
      status |-> "Ok" ]

\* The loop of Builder::update with the two bases of a hit exchanged.
RECURSIVE update_features_exchanged(_, _)
update_features_exchanged(builder, features) ==
    IF features = <<>> \/ builder.status # "Ok" THEN builder
    ELSE LET feature == Head(features)
             after == IF feature.kind # "Substitution" THEN builder
                      ELSE IF feature.value[1] = "Bases"
                           THEN [builder EXCEPT
                                    !.histogram = hit(@, feature.value[3], feature.value[2])]
                           ELSE [builder EXCEPT !.status = "Panic"]
         IN  update_features_exchanged(after, Tail(features))

\* The loop of Builder::update over record.features(): a substitution that
\* carries a base pair is a hit, one that carries a code panics, every other
\* feature is passed over.
RECURSIVE update_features(_, _)
update_features(builder, features) ==
    IF features = <<>> \/ builder.status # "Ok" THEN builder
    ELSE LET feature == Head(features)
             after == IF feature.kind # "Substitution" THEN builder
                      ELSE IF feature.value[1] = "Bases"
                           THEN [builder EXCEPT
                                    !.histogram = hit(@, feature.value[2], feature.value[3])]
                           ELSE [builder EXCEPT !.status = "Panic"]
         IN  update_features(after, Tail(features))

update(builder, record) == update_features(builder, record.features)

\* build_compression_header: compression_header_builder.update(record) for
\* every record of the slice builders; the compression header builder hands
\* the record to the substitution matrix builder.
RECURSIVE build_compression_header(_, _)
build_compression_header(builder, records) ==
    IF records = <<>> THEN builder
    ELSE build_compression_header(update(builder, Head(records)), Tail(records))

\* data_container::Builder::build for a container of one slice of one
\* record: the statistics pass, then the slice is built, which writes the
\* record with a new Writer.  A panic of the statistics pass ends the build
\* before anything is written.
BuildContainer(record, overflow_checks) ==
    IF build_compression_header(substitution_matrix_Builder, << record >>).status = "Panic"
    THEN /\ result.status # "Panic"
         /\ result' = [status |-> "Panic",
                       kind |-> "substitution matrix cannot be built from substitution codes",
                       error |-> NoError]
         /\ emitted' = <<>>
         /\ last_call' = [called |-> TRUE, record |-> record,
                          prev_alignment_start |-> prev_alignment_start,
                          overflow_checks |-> overflow_checks]
         /\ calls' = calls + 1
         /\ UNCHANGED <<compression_header, external_data_writers, reference_sequence_id,
                        prev_alignment_start, initial_alignment_start, written>>
    ELSE WriteRecord(record, overflow_checks)

BuildInit ==
    /\ ModelIdle
    /\ \E rn \in BOOLEAN, ap \in BOOLEAN, td \in TagDictionaries,
          id \in { <<"Some", 0>>, <<"Many">> } :
          Writer_new(Header(rn, ap, td, {}, {}, NoOther), open_blocks(AllBlocks),
                     id, Some(1))

BuildNext ==
    \E record \in Records : \E overflow_checks \in OverflowModes(record) :
        /\ calls = 0
        /\ BuildContainer(record, overflow_checks)
        /\ UNCHANGED modelVars

SpecBuild == BuildInit /\ [][BuildNext]_vars

\* Headers and writers with one thing missing: the encoding of one optional
\* series, of every optional series, of one tag, the external block of one
\* series or tag, or an encoding of a kind the writer does not implement.
DefectHeaders ==
    LET td == << <<>>, <<KeyNH, KeyCO>> >> IN
    { [rn |-> rn, absent |-> ab, no_tag |-> {}, other |-> NoOther, closed |-> {}, td |-> td] :
        rn \in BOOLEAN, ab \in { {s} : s \in OptionalSeries } \cup { OptionalSeries } }
    \cup
    { [rn |-> rn, absent |-> {}, no_tag |-> {k}, other |-> NoOther, closed |-> {}, td |-> td] :
        rn \in BOOLEAN, k \in TagKeys }
    \cup
    { [rn |-> rn, absent |-> {}, no_tag |-> {}, other |-> NoOther, closed |-> {id}, td |-> td] :
        rn \in BOOLEAN, id \in AllBlocks }
    \cup
    { [rn |-> rn, absent |-> {}, no_tag |-> {}, other |-> [x \in {s} |-> <<"Null">>],
       closed |-> {}, td |-> td] :
        rn \in BOOLEAN, s \in DataSeries }

\* Records for them: every need of a series arises.
DefectRecords ==
    { Record(bf, cf, Some(MaxPosition), 1, pat, tags, <<>>) :
        bf \in { 0, 4 }, cf \in 0..3,
        pat \in { [i \in 1..7 |-> FALSE], AllPresent },
        tags \in { <<>>, <<FieldNH, FieldCO>> } }
    \cup
    { Record(0, cf, Some(MaxPosition), 1, AllPresent, <<>>, <<f>>) :
        cf \in 0..1, f \in { g \in Features : g.position = 1 } }

DefectInit ==
    /\ ModelIdle
    /\ \E d \in DefectHeaders, id \in { <<"Some", 0>>, <<"Many">> } :
          Writer_new(Header(d.rn, FALSE, d.td, d.absent, d.no_tag, d.other),
                     open_blocks(AllBlocks \ d.closed), id, Some(1))

DefectNext ==
    \E record \in DefectRecords :
        /\ calls = 0
        /\ WriteRecord(record, TRUE)
        /\ UNCHANGED modelVars

SpecDefect == DefectInit /\ [][DefectNext]_vars

(***************************************************************************)
(* The three encoders on their own.                                        *)
(***************************************************************************)
\* Block content ids 1..MaxBlockId, any of them open.
MaxBlockId == 2

BlockIds == 1..MaxBlockId

FlatEncodings ==
    { <<"External", id>> : id \in BlockIds }
    \cup { <<"ByteArrayStop", 0, id>> : id \in BlockIds }
    \cup { <<"Null">>, <<"Huffman">>, <<"Beta">> }

Encodings ==
    FlatEncodings \cup { <<"ByteArrayLen", l, v>> : l \in FlatEncodings, v \in FlatEncodings }

EncodeInit ==
    /\ ModelIdle
    /\ \E ids \in SUBSET BlockIds :
          Writer_new(Header(TRUE, TRUE, << <<>> >>, {}, {}, NoOther), open_blocks(ids),
                     <<"None">>, None)

EncoderSelf ==
    [ external_data_writers |-> external_data_writers,
      reference_sequence_id |-> reference_sequence_id,
      prev_alignment_start |-> prev_alignment_start,
      overflow_checks |-> TRUE,
      status |-> "Ok", kind |-> "", error |-> NoError, log |-> <<>> ]

Encoded(function, encoding, value, done) ==
    /\ calls = 0
    /\ external_data_writers' = done.external_data_writers
    /\ result' = [status |-> done.status, kind |-> done.kind, error |-> done.error]
    /\ last_call' = [called |-> TRUE, function |-> function, encoding |-> encoding,
                     value |-> value, writers |-> external_data_writers]
    /\ calls' = calls + 1
    /\ UNCHANGED <<compression_header, reference_sequence_id, initial_alignment_start,
                   prev_alignment_start, emitted, written>>
    /\ UNCHANGED modelVars

EncodeByte(encoding, value) ==
    Encoded("encode_byte", encoding, value, encode_byte(encoding, EncoderSelf, value))

EncodeItf8(encoding, value) ==
    Encoded("encode_itf8", encoding, value, encode_itf8(encoding, EncoderSelf, value))

EncodeByteArray(encoding, data) ==
    Encoded("encode_byte_array", encoding, data, encode_byte_array(encoding, EncoderSelf, data))

EncodeNext ==
    \/ \E encoding \in Encodings, value \in { 0, 255 } : EncodeByte(encoding, value)
    \/ \E encoding \in Encodings, value \in { -1, 300 } : EncodeItf8(encoding, value)
    \/ \E encoding \in Encodings, data \in { <<>>, << 65, 67 >> } :
          EncodeByteArray(encoding, data)

SpecEncode == EncodeInit /\ [][EncodeNext]_vars

(***************************************************************************)
(* The adaptive model on its own: Model::new, then decode calls.           *)
(***************************************************************************)
\* Model::new(max_sym) for a max_sym of 0..MaxSym; no record writer at work.
ModelInit ==
    /\ WriterIdle
    /\ max_sym \in 0..MaxSym
    /\ total_freq = Model_new(max_sym).total_freq
    /\ symbols = Model_new(max_sym).symbols
    /\ frequencies = Model_new(max_sym).frequencies
    /\ last_decode = NoDecode
    /\ decode_calls = 0
    /\ bursts = 0

ModelNext ==
    \/ \E freq \in FreqChoices(CurrentModel) : Decode(freq)
    \/ DecodeBurst
    \/ DecodeBurstLast

SpecModel == ModelInit /\ [][ModelNext]_vars

(***************************************************************************)
(* Claims about the adaptive model, checked under SpecModel.               *)
(***************************************************************************)
\* C1: in every state reachable from Model::new by decode calls with
\* freq < total_freq, total_freq is the sum of all frequencies, also right
\* after a renormalization.
C1_TotalIsSum == total_freq = SumSeq(frequencies)

C1_Witness ==
    /\ last_decode.renormalized
    /\ total_freq = SumSeq(frequencies)
    /\ total_freq < last_decode.before.total_freq

\* C2: in every reachable state every frequency is at least 1; the
\* renormalization f -= f / 2 never makes a frequency 0.
C2_FrequenciesPositive == \A i \in DOMAIN frequencies : frequencies[i] >= 1

C2_Witness ==
    /\ last_decode.renormalized
    /\ \E i \in DOMAIN frequencies :
          /\ frequencies[i] = 1
          /\ \E j \in DOMAIN frequencies : last_decode.before.frequencies[j] = 1

\* C3: in every reachable state symbols is a permutation of 0..=max_sym, and
\* symbols and frequencies have the same length.
C3_SymbolsPermutation ==
    /\ Len(symbols) = max_sym + 1
    /\ Len(frequencies) = Len(symbols)
    /\ { symbols[i] : i \in DOMAIN symbols } = 0..max_sym

C3_Witness ==
    /\ last_decode.swapped
    /\ \E i \in DOMAIN symbols : symbols[i] # i - 1

(***************************************************************************)
(* Claims about the record writer.                                         *)
(***************************************************************************)
PosOrZero(o) == IF is_some(o) THEN unwrap(o) ELSE 0

\* The AP values in the external block of the AP series, in order.
APBlock == external_data_writers[block_content_id("InSeqPositions")]
APValues == [i \in DOMAIN APBlock |-> APBlock[i][2]]

RECURSIVE PrefixSum(_, _)
PrefixSum(s, n) == IF n = 0 THEN 0 ELSE PrefixSum(s, n - 1) + s[n]

DeltaHeader == preservation_map.ap_data_series_delta

\* C4 (SpecSlice): for the records written in order by one Writer, with
\* ap_data_series_delta the seed alignment start plus the sum of the AP
\* values written for records 0..i is the alignment start of record i;
\* without it the AP value of record i is its alignment start, 0 when absent.
C4_APRoundTrip ==
    /\ Len(APValues) = Len(written)
    /\ \A i \in DOMAIN written :
          IF DeltaHeader
          THEN PosOrZero(initial_alignment_start) + PrefixSum(APValues, i)
                   = PosOrZero(written[i])
          ELSE APValues[i] = PosOrZero(written[i])

C4_Witness ==
    /\ DeltaHeader
    /\ Len(written) = 3
    /\ written[1] # written[2] /\ written[2] # written[3]
    /\ \E i \in DOMAIN APValues : APValues[i] < 0
    /\ \E i \in DOMAIN APValues : APValues[i] > 0

\* The series (and tag keys) a record is written as, in the order of
\* section 4.7 of the design: what the claims expect of the writer.
PayloadSeries(kind) ==
    CASE kind = "Bases" -> << "StretchesOfBases" >>
      [] kind = "Scores" -> << "StretchesOfQualityScores" >>
      [] kind = "ReadBase" -> << "Bases", "QualityScores" >>
      [] kind = "Substitution" -> << "BaseSubstitutionCodes" >>
      [] kind = "Insertion" -> << "Insertion" >>
      [] kind = "Deletion" -> << "DeletionLengths" >>
      [] kind = "InsertBase" -> << "Bases" >>
      [] kind = "QualityScore" -> << "QualityScores" >>
      [] kind = "ReferenceSkip" -> << "ReferenceSkipLength" >>
      [] kind = "SoftClip" -> << "SoftClip" >>
      [] kind = "Padding" -> << "Padding" >>
      [] kind = "HardClip" -> << "HardClip" >>

RECURSIVE ExpectedFeatures(_)
ExpectedFeatures(fs) ==
    IF fs = <<>> THEN <<>>
    ELSE << "ReadFeaturesCodes", "InReadPositions" >> \o PayloadSeries(Head(fs).kind)
         \o ExpectedFeatures(Tail(fs))

Times(series, n) == [i \in 1..n |-> series]

NoKeys(ss) == [i \in DOMAIN ss |-> << ss[i], None >>]

ExpectedMate(r) ==
    IF is_detached(r.cram_flags)
    THEN << "NextMateBitFlags" >>
         \o (IF preservation_map.read_names_included THEN <<>> ELSE << "ReadNames" >>)
         \o << "NextFragmentReferenceSequenceId", "NextMateAlignmentStart", "TemplateSize" >>
    ELSE IF is_some(r.distance_to_next_fragment) THEN << "DistanceToNextFragment" >> ELSE <<>>

ExpectedBody(r) ==
    LET qs == IF are_quality_scores_stored_as_array(r.cram_flags)
              THEN Times("QualityScores", Len(r.quality_scores)) ELSE <<>>
    IN  IF is_unmapped(r.bam_flags)
        THEN Times("Bases", Len(r.bases)) \o qs
        ELSE << "NumberOfReadFeatures" >> \o ExpectedFeatures(r.features)
             \o << "MappingQualities" >> \o qs

Expected(r) ==
    NoKeys(<< "BamBitFlags", "CramBitFlags" >>
           \o (IF is_many(reference_sequence_id) THEN << "ReferenceId" >> ELSE <<>>)
           \o << "ReadLengths", "InSeqPositions", "ReadGroups" >>
           \o (IF preservation_map.read_names_included THEN << "ReadNames" >> ELSE <<>>)
           \o ExpectedMate(r)
           \o << "TagIds" >>)
    \o [i \in DOMAIN r.tags |-> << "Tag", r.tags[i].key >>]
    \o NoKeys(ExpectedBody(r))

EmittedSeries == [i \in DOMAIN emitted |-> << emitted[i].series, emitted[i].key >>]

IsPrefix(s, t) == Len(s) <= Len(t) /\ s = SubSeq(t, 1, Len(s))

\* C5 (SpecRecord): write_record emits BF, CF, RI (only for a Many slice),
\* RL, AP, RG, RN (only with read_names_included), the mate block, TL, the
\* tag values in record order, then the mapped body (FN, features, MQ, QS) or
\* the unmapped body (BA, QS): what a call emitted is a prefix of that list,
\* and all of it when the call returns Ok.
C5_WriteOrder ==
    last_call.called =>
        /\ IsPrefix(EmittedSeries, Expected(last_call.record))
        /\ result.status = "Ok" => EmittedSeries = Expected(last_call.record)

C5_Witness ==
    /\ last_call.called
    /\ result.status = "Ok"
    /\ is_many(reference_sequence_id)
    /\ preservation_map.read_names_included
    /\ is_detached(last_call.record.cram_flags)
    /\ are_quality_scores_stored_as_array(last_call.record.cram_flags)
    /\ Len(last_call.record.tags) = 2
    /\ Len(last_call.record.features) = 2
    /\ EmittedSeries = Expected(last_call.record)

AsymmetricAP ==
    is_some(last_call.record.alignment_start) # is_some(last_call.prev_alignment_start)

EmittedOf(series) == SelectSeq(emitted, LAMBDA e : e.series = series)

\* C6 (SpecSlice): with ap_data_series_delta, a record whose alignment start
\* is Some while prev_alignment_start is None, or None while it is Some,
\* fails with InvalidInput and no AP value is written; when both are None
\* the AP value written is 0.
C6_APAsymmetry ==
    (last_call.called /\ DeltaHeader) =>
        /\ AsymmetricAP =>
              /\ result.status = "Err"
              /\ result.kind = "InvalidInput"
              /\ EmittedOf("InSeqPositions") = <<>>
              /\ Len(APValues) = Len(written)
        /\ (~is_some(last_call.record.alignment_start)
            /\ ~is_some(last_call.prev_alignment_start)) =>
              /\ result.status = "Ok"
              /\ Len(EmittedOf("InSeqPositions")) = 1
              /\ EmittedOf("InSeqPositions")[1].value = 0
              /\ APValues[Len(APValues)] = 0

C6_Witness ==
    /\ last_call.called /\ DeltaHeader /\ AsymmetricAP
    /\ calls = 2 /\ Len(written) = 1
    /\ result.kind = "InvalidInput"

\* The data series a record needs an encoding for, and those the header
\* has none for.
Needed(r) == { Expected(r)[i][1] : i \in DOMAIN Expected(r) } \ { "Tag" }
Absent == { s \in DataSeries : data_series_encoding_map[s] = NoEncoding }

FirstAbsent(r) ==
    LET at == { i \in DOMAIN Expected(r) : Expected(r)[i][1] \in Absent }
    IN  Expected(r)[CHOOSE i \in at : \A j \in at : i <= j][1]

\* Nothing else is wrong with the header, the blocks or the record: every tag
\* has an encoding, every encoding is one the writer implements, every block
\* is open, the tag line is in the dictionary and no substitution is a code.
OtherwiseSound ==
    /\ \A k \in TagKeys : key_id(k) \in DOMAIN tag_encoding_map
    /\ \A s \in DataSeries \ Absent : data_series_encoding_map[s] = default_encoding(s)
    /\ AllBlocks \subseteq DOMAIN external_data_writers
    /\ is_some(find_tag_line(preservation_map.tag_ids_dictionary,
                             [i \in DOMAIN last_call.record.tags |->
                                 last_call.record.tags[i].key]))
    /\ \A i \in DOMAIN last_call.record.features :
          last_call.record.features[i].kind = "Substitution"
              => last_call.record.features[i].value[1] = "Bases"

\* C7 (SpecDefect): a record that needs a data series whose encoding is
\* absent from the data series encoding map fails with InvalidData and
\* MissingDataSeriesEncoding naming that series (the first such series in
\* write order); a record that needs none of the absent series is written.
C7_MissingEncoding ==
    (last_call.called /\ OtherwiseSound /\ Absent # {}) =>
        IF Needed(last_call.record) \cap Absent = {}
        THEN result.status = "Ok"
        ELSE /\ result.status = "Err"
             /\ result.kind = "InvalidData"
             /\ result.error = MissingDataSeriesEncoding(FirstAbsent(last_call.record))
             /\ result.error[2] \in Needed(last_call.record) \cap Absent
             /\ EmittedOf(result.error[2]) = <<>>

C7_Witness ==
    /\ last_call.called /\ OtherwiseSound
    /\ Absent = { "ReferenceId" }
    /\ is_many(reference_sequence_id)
    /\ result = [status |-> "Err", kind |-> "InvalidData",
                 error |-> MissingDataSeriesEncoding("ReferenceId")]
    /\ Len(emitted) = 2

ReferredFlat(e) ==
    CASE e[1] = "External" -> { e[2] }
      [] e[1] = "ByteArrayStop" -> { e[3] }
      [] OTHER -> {}

Referred(e) ==
    IF e[1] = "ByteArrayLen" THEN ReferredFlat(e[2]) \cup ReferredFlat(e[3])
    ELSE ReferredFlat(e)

FailsMissing(id) ==
    result.status = "Err" /\ result.error = MissingExternalBlock(id)

RecordKeys == [i \in DOMAIN last_call.record.tags |-> last_call.record.tags[i].key]
TagDictionary == preservation_map.tag_ids_dictionary
LineMatches == \E i \in DOMAIN TagDictionary : TagDictionary[i] = RecordKeys

\* C10 (SpecRecord): the TL value written for a record is the index (from 0)
\* of a line of the tag IDs dictionary whose key list is the record's tag
\* keys in order, the empty line for a record without tags, and the first
\* such line; when no line matches, write_record fails with InvalidInput and
\* writes neither TL nor any tag value.
C10_TagLine ==
    last_call.called =>
        /\ \A i \in DOMAIN emitted :
              emitted[i].series = "TagIds" =>
                  /\ emitted[i].value + 1 \in DOMAIN TagDictionary
                  /\ TagDictionary[emitted[i].value + 1] = RecordKeys
                  /\ \A j \in 1..emitted[i].value : TagDictionary[j] # RecordKeys
        /\ result.status = "Ok" => Len(EmittedOf("TagIds")) = 1
        /\ ~LineMatches =>
              /\ EmittedOf("TagIds") = <<>>
              /\ EmittedOf("Tag") = <<>>
              /\ result.status = "Err"
              /\ result.kind = "InvalidInput"
              /\ (~DeltaHeader \/ ~AsymmetricAP) =>
                    result.error = Message("tag line not in tag IDs dictionary")

C10_Witness ==
    /\ last_call.called
    /\ result.status = "Ok"
    /\ Len(RecordKeys) = 2
    /\ Len(TagDictionary) = 3
    /\ TagDictionary[1] # RecordKeys
    /\ TagDictionary[2] = RecordKeys
    /\ TagDictionary[3] = RecordKeys
    /\ EmittedOf("TagIds")[1].value = 1
    /\ Len(EmittedOf("Tag")) = 2

\* The tag keys of the record that have no encoding in the tag encoding map.
TagsWithoutEncoding == { i \in DOMAIN RecordKeys : key_id(RecordKeys[i]) \notin DOMAIN tag_encoding_map }
FirstTagWithoutEncoding == CHOOSE i \in TagsWithoutEncoding : \A j \in TagsWithoutEncoding : i <= j

\* C11 (SpecDefect): when the record's tags are a line of the dictionary and
\* one of them has no entry in the tag encoding map under its packed id,
\* write_record fails with InvalidInput and MissingTagEncoding(key) for the
\* key of the first such tag, having written TL and the tag values before it
\* and none after it.
C11_MissingTagEncoding ==
    (/\ last_call.called
     /\ Absent = {}
     /\ \A s \in DataSeries : data_series_encoding_map[s] = default_encoding(s)
     /\ AllBlocks \subseteq DOMAIN external_data_writers
     /\ LineMatches
     /\ TagsWithoutEncoding # {}) =>
        /\ result.status = "Err"
        /\ result.kind = "InvalidInput"
        /\ result.error = MissingTagEncoding(RecordKeys[FirstTagWithoutEncoding])
        /\ Len(EmittedOf("TagIds")) = 1
        /\ [i \in DOMAIN EmittedOf("Tag") |-> EmittedOf("Tag")[i].key]
              = SubSeq(RecordKeys, 1, FirstTagWithoutEncoding - 1)
        /\ emitted[Len(emitted)].series \in { "TagIds", "Tag" }

C11_Witness ==
    /\ last_call.called
    /\ LineMatches
    /\ RecordKeys = << KeyNH, KeyCO >>
    /\ key_id(KeyNH) \in DOMAIN tag_encoding_map
    /\ key_id(KeyCO) \notin DOMAIN tag_encoding_map
    /\ result.error = MissingTagEncoding(KeyCO)
    /\ Len(EmittedOf("Tag")) = 1

\* The FP values written by the last call, and the in-read positions of the
\* record's features.
FPValues == [i \in DOMAIN EmittedOf("InReadPositions") |-> EmittedOf("InReadPositions")[i].value]
FeaturePositions == [i \in DOMAIN last_call.record.features |-> last_call.record.features[i].position]
NonDecreasing(ps) == \A i \in 1..(Len(ps) - 1) : ps[i] <= ps[i + 1]

\* C12 (SpecRecord): for a mapped record the FP value written for the i-th
\* feature is p_i - p_(i-1), p_0 being 0, so the sum of the first i FP values
\* is the position of the i-th feature; with the features in non-decreasing
\* position order every FP value is non-negative and a call that returns Ok
\* wrote one for every feature.
C12_FeaturePositionDelta ==
    (last_call.called /\ ~is_unmapped(last_call.record.bam_flags)) =>
        /\ Len(FPValues) <= Len(FeaturePositions)
        /\ \A i \in DOMAIN FPValues :
              /\ FPValues[i] = FeaturePositions[i] - (IF i = 1 THEN 0 ELSE FeaturePositions[i - 1])
              /\ PrefixSum(FPValues, i) = FeaturePositions[i]
        /\ NonDecreasing(FeaturePositions) =>
              /\ \A i \in DOMAIN FPValues : FPValues[i] >= 0
              /\ result.status = "Ok" => Len(FPValues) = Len(FeaturePositions)

C12_Witness ==
    /\ last_call.called
    /\ result.status = "Ok"
    /\ FeaturePositions = << 1, 2 >>
    /\ FPValues = << 1, 1 >>

EmittedValues(series) == [i \in DOMAIN EmittedOf(series) |-> EmittedOf(series)[i].value]
MappedBodySeries ==
    { "NumberOfReadFeatures", "ReadFeaturesCodes", "InReadPositions", "MappingQualities" }
StoredAsArray == are_quality_scores_stored_as_array(last_call.record.cram_flags)

FNPlace ==
    LET at == { i \in DOMAIN emitted : emitted[i].series = "NumberOfReadFeatures" }
    IN  IF at = {} THEN 0 ELSE CHOOSE i \in at : \A j \in at : i <= j

DetachedSeries ==
    { "NextMateBitFlags", "NextFragmentReferenceSequenceId", "NextMateAlignmentStart",
      "TemplateSize" }
MateSeries == DetachedSeries \cup { "DistanceToNextFragment" }
EmittedMate == SelectSeq(emitted, LAMBDA e : e.series \in MateSeries)

\* The call got past the steps before the mate block: it returned Ok or
\* wrote TL.
PastMateBlock == result.status = "Ok" \/ EmittedOf("TagIds") # <<>>

\* C15 (SpecRecord): for a record with the CRAM flag DETACHED write_record
\* writes MF, NS (-1 when the next fragment reference id is absent), NP (0
\* when the next mate alignment start is absent) and TS, in that order, and
\* never NF; for a record that is not detached it writes none of MF, NS, NP
\* and TS, and writes NF exactly when distance_to_next_fragment is present.
C15_MateBlock ==
    last_call.called =>
        LET r == last_call.record IN
        IF is_detached(r.cram_flags)
        THEN /\ EmittedOf("DistanceToNextFragment") = <<>>
             /\ PastMateBlock =>
                   [i \in DOMAIN EmittedMate |-> << EmittedMate[i].series, EmittedMate[i].value >>]
                      = << << "NextMateBitFlags", r.next_mate_flags >>,
                           << "NextFragmentReferenceSequenceId",
                              IF is_some(r.next_fragment_reference_sequence_id)
                              THEN unwrap(r.next_fragment_reference_sequence_id) ELSE -1 >>,
                           << "NextMateAlignmentStart",
                              IF is_some(r.next_mate_alignment_start)
                              THEN unwrap(r.next_mate_alignment_start) ELSE 0 >>,
                           << "TemplateSize", r.template_size >> >>
        ELSE /\ \A i \in DOMAIN emitted : emitted[i].series \notin DetachedSeries
             /\ ~is_some(r.distance_to_next_fragment) => EmittedOf("DistanceToNextFragment") = <<>>
             /\ (is_some(r.distance_to_next_fragment) /\ PastMateBlock) =>
                   EmittedValues("DistanceToNextFragment") = << unwrap(r.distance_to_next_fragment) >>

C15_Witness ==
    /\ last_call.called
    /\ is_detached(last_call.record.cram_flags)
    /\ is_some(last_call.record.distance_to_next_fragment)
    /\ ~is_some(last_call.record.next_fragment_reference_sequence_id)
    /\ result.status = "Ok"
    /\ EmittedValues("NextFragmentReferenceSequenceId") = << -1 >>
    /\ Len(EmittedOf("NextMateAlignmentStart")) = 1
    /\ EmittedOf("DistanceToNextFragment") = <<>>

\* The features of the record that are substitutions carrying a code.
CodeFeatures ==
    { i \in DOMAIN last_call.record.features :
        /\ last_call.record.features[i].kind = "Substitution"
        /\ last_call.record.features[i].value[1] = "Code" }

\* C16 (SpecBuild): writing a mapped record one of whose features is a
\* substitution carrying a code (the header being complete, the blocks open
\* and the feature positions non-decreasing) fails with an InvalidInput
\* error and writes no BS value for that feature.
C16_SubstitutionCode ==
    (/\ last_call.called
     /\ ~is_unmapped(last_call.record.bam_flags)
     /\ NonDecreasing(FeaturePositions)
     /\ CodeFeatures # {}) =>
        /\ result.status = "Err"
        /\ result.kind = "InvalidInput"
        /\ Len(EmittedOf("BaseSubstitutionCodes"))
              < Cardinality({ i \in DOMAIN last_call.record.features :
                                last_call.record.features[i].kind = "Substitution" })

\* The bytes an Encoding is laid out as: its kind tag alone for Null, and
\* for every other kind the kind tag, the number of args bytes and the args,
\* each integer as ITF8; the args of ByteArrayLen are its two sub-encodings
\* laid out one after the other.
RECURSIVE Itf8All(_)
Itf8All(values) == IF values = <<>> THEN <<>> ELSE itf8(Head(values)) \o Itf8All(Tail(values))

RECURSIVE Layout(_)
ArgsLayout(e) ==
    CASE e[1] = "Huffman" -> itf8(Len(e[2])) \o Itf8All(e[2]) \o itf8(Len(e[3])) \o Itf8All(e[3])
      [] e[1] = "ByteArrayLen" -> Layout(e[2]) \o Layout(e[3])
      [] e[1] = "ByteArrayStop" -> << e[2] >> \o itf8(e[3])
      [] OTHER -> Itf8All(Tail(e))
Layout(e) ==
    IF e[1] = "Null" THEN << 0 >>
    ELSE itf8(Kind(e[1])) \o itf8(Len(ArgsLayout(e))) \o ArgsLayout(e)

\* A u32 of the encoding, at any depth, does not fit an i32.
RECURSIVE HasWideLength(_)
HasWideLength(e) ==
    CASE e[1] = "Beta" -> e[3] < 0
      [] e[1] = "Huffman" -> \E i \in DOMAIN e[3] : e[3][i] < 0
      [] e[1] = "ByteArrayLen" -> HasWideLength(e[2]) \/ HasWideLength(e[3])
      [] OTHER -> FALSE

\* The bytes written are a kind tag, an args length n and n more bytes.
Framed(kind) ==
    \E n \in 0..Len(emitted) :
        emitted = itf8(kind) \o itf8(n) \o SubSeq(emitted, Len(emitted) - n + 1, Len(emitted))

\* C17 as stated (SpecEncoding): for every Encoding write_encoding emits the
\* itf8 kind tag, then an itf8 args length, then exactly that many bytes of
\* args.
C17_EveryEncodingFramed ==
    last_call.called =>
        /\ result.status = "Ok"
        /\ Framed(Kind(last_call.encoding[1]))

\* C17 amended (SpecEncoding): for every Encoding other than Null none of
\* whose Beta lengths and Huffman bit lengths (those of nested sub-encodings
\* included) exceeds i32::MAX, and whose args are no longer than i32::MAX
\* bytes, write_encoding emits the itf8 kind tag, then an itf8 args
\* length, then exactly that many bytes of kind-specific args,
\* the args of ByteArrayLen being its two sub-encodings serialized one after
\* the other; External(5) gives [1, 1, 5] and ByteArrayLen(External(13),
\* External(21)) gives [4, 6, 1, 1, 13, 1, 1, 21].  Null emits its kind tag
\* alone, and an encoding with such a Beta length or Huffman bit length
\* fails with InvalidInput and emits nothing.
C17_EncodingLayout ==
    last_call.called =>
        LET e == last_call.encoding IN
        IF HasWideLength(e)
        THEN result.status = "Err" /\ result.kind = "InvalidInput" /\ emitted = <<>>
        ELSE /\ result.status = "Ok"
             /\ emitted = Layout(e)
             /\ e[1] # "Null" => Framed(Kind(e[1]))
             /\ e = <<"External", 5>> => emitted = << 1, 1, 5 >>
             /\ e = <<"ByteArrayLen", <<"External", 13>>, <<"External", 21>>>>
                    => emitted = << 4, 6, 1, 1, 13, 1, 1, 21 >>

C17_Witness ==
    /\ last_call.called
    /\ last_call.encoding = <<"ByteArrayLen", <<"External", 13>>, <<"External", 21>>>>
    /\ result.status = "Ok"
    /\ emitted = << 4, 6, 1, 1, 13, 1, 1, 21 >>

\* C18 (SpecEncoding): writing the Null encoding emits exactly one byte, the
\* kind tag 0, and nothing else.
C18_NullEncoding ==
    (last_call.called /\ last_call.encoding = <<"Null">>) =>
        result.status = "Ok" /\ emitted = << 0 >>

C18_Witness ==
    /\ last_call.called
    /\ last_call.encoding = <<"Null">>
    /\ Len(emitted) = 1

\* The keys of the entries the last call read, and the call read a buffer
\* that holds exactly those entries.
EntryKeys == { last_call.entries[i].key : i \in DOMAIN last_call.entries }
InFull == last_call.framing = [data_len |-> "exact", map_len |-> "exact"]

\* The bool of the last entry with the key, TRUE when there is none.
FlagOf(key) ==
    LET at == { i \in DOMAIN last_call.entries : last_call.entries[i].key = key }
    IN  IF at = {} THEN TRUE
        ELSE last_call.entries[CHOOSE i \in at : \A j \in at : j <= i].bytes[3] = 1

\* C19 (SpecMaps): get_preservation_map never returns Ok for entries with
\* no "SM" key or no "TD" key, whatever other keys are present, and fails
\* with InvalidData when the buffer holds the entries in full; in the map it
\* returns each of the flags RN, AP and RR that is absent from the entries
\* is true, and each that is present has the value of its last entry.
C19_PreservationMapDefaults ==
    (last_call.called /\ last_call.function = "get_preservation_map") =>
        /\ ("SM" \notin EntryKeys \/ "TD" \notin EntryKeys) =>
              /\ result.status = "Err"
              /\ InFull => result.kind = "InvalidData"
        /\ result.status = "Ok" =>
              /\ emitted.read_names_included = FlagOf("RN")
              /\ emitted.ap_data_series_delta = FlagOf("AP")
              /\ emitted.reference_required = FlagOf("RR")

C19_Witness ==
    /\ last_call.called
    /\ last_call.function = "get_preservation_map"
    /\ InFull
    /\ EntryKeys = { "AP", "TD" }
    /\ result.kind = "InvalidData"
    /\ result.error = Message("missing substitution matrix")

\* The entries of the last call without those under a reserved key, and the
\* result of get_data_series_encoding_map on a buffer that holds them.
ReservedKeys == { "ReservedTc", "ReservedTn" }
Unreserved == SelectSeq(last_call.entries, LAMBDA e : e.key \notin ReservedKeys)
WithoutReserved == get_data_series_encoding_map(MapBytes(Unreserved, last_call.framing))

\* C20 (SpecMaps): get_data_series_encoding_map never returns Ok for entries
\* one of whose keys is no data series and no reserved key, and fails with
\* InvalidData when the buffer holds the entries in full; an entry with a
\* reserved key (TC, TN) has its encoding parsed, the call failing with
\* InvalidData when it is of no kind, and is then discarded: the call
\* returns what it returns for the entries without the reserved ones.
C20_UnknownAndReservedKeys ==
    (last_call.called /\ last_call.function = "get_data_series_encoding_map") =>
        /\ "XX" \in EntryKeys =>
              /\ result.status = "Err"
              /\ InFull => result.kind = "InvalidData"
        /\ (InFull /\ \E i \in DOMAIN last_call.entries :
                         /\ last_call.entries[i].key \in ReservedKeys
                         /\ last_call.entries[i].encoding = NoEncoding
                         /\ \A j \in 1..(i - 1) : last_call.entries[j].key # "XX") =>
              /\ result.status = "Err"
              /\ result.error = Message("invalid encoding kind")
        /\ (InFull /\ \A i \in DOMAIN last_call.entries :
                         last_call.entries[i].encoding # NoEncoding) =>
              /\ result.status = WithoutReserved.status
              /\ result.kind = WithoutReserved.kind
              /\ result.error = WithoutReserved.error
              /\ emitted = WithoutReserved.value
        /\ result.status = "Ok" =>
              \A s \in DataSeries :
                  LET at == { i \in DOMAIN last_call.entries : last_call.entries[i].key = s }
                  IN  emitted[s] = IF at = {} THEN NoEncoding
                                   ELSE last_call.entries[CHOOSE i \in at : \A j \in at : j <= i].encoding

C20_Witness ==
    /\ last_call.called
    /\ last_call.function = "get_data_series_encoding_map"
    /\ InFull
    /\ EntryKeys = MandatorySeries \cup ReservedKeys
    /\ result.status = "Ok"
    /\ emitted["BamBitFlags"] = <<"External", 1>>
    /\ \A s \in OptionalSeries : emitted[s] = NoEncoding

(***************************************************************************)
(* More claims about the adaptive model, checked under SpecModel.          *)
(***************************************************************************)
\* A decode call has been made, and the model it found.
Decoded == decode_calls + bursts > 0
Before == last_decode.before

\* C23: decode selects the least index x for which the sum of
\* frequencies[0..=x] is greater than freq, hands range_decode the sum of
\* the frequencies below x and frequencies[x] as it was before the
\* increment, and returns the symbol that was at index x before the move-up
\* swap of the call.
C23_DecodeSelects ==
    Decoded =>
        LET x == last_decode.x IN
        /\ x < Len(Before.frequencies)
        /\ Cumulative(Before.frequencies, x + 1) > last_decode.freq
        /\ \A y \in 0..(x - 1) : Cumulative(Before.frequencies, y + 1) <= last_decode.freq
        /\ last_decode.acc = Cumulative(Before.frequencies, x)
        /\ last_decode.range_freq = Before.frequencies[x + 1]
        /\ last_decode.sym = Before.symbols[x + 1]

C23_Witness ==
    /\ Decoded
    /\ last_decode.x > 0
    /\ last_decode.swapped
    /\ last_decode.sym = Before.symbols[last_decode.x + 1]
    /\ last_decode.sym = symbols[last_decode.x]
    /\ last_decode.range_freq + STEP = frequencies[last_decode.x]

\* C26: when the range coder returns freq with 0 <= freq < total_freq, the
\* linear scan of decode ends at an index x less than the number of symbols,
\* without reading frequencies or symbols out of bounds, with
\* acc <= freq < acc + frequencies[x].
C26_ScanInBounds ==
    (Decoded /\ last_decode.freq >= 0 /\ last_decode.freq < Before.total_freq) =>
        /\ ~last_decode.panic
        /\ last_decode.x < Len(Before.frequencies)
        /\ last_decode.x < Len(Before.symbols)
        /\ last_decode.acc <= last_decode.freq
        /\ last_decode.freq < last_decode.acc + Before.frequencies[last_decode.x + 1]

C26_Witness ==
    /\ Decoded
    /\ ~last_decode.panic
    /\ last_decode.x = Len(Before.frequencies) - 1
    /\ last_decode.x > 0
    /\ last_decode.freq = Before.total_freq - 1

\* The frequencies of the last decode call right after the increment of the
\* selected one, and right after the renormalization step (which leaves them
\* alone when it does not run).
Incremented == [Before.frequencies EXCEPT ![last_decode.x + 1] = @ + STEP]
Halved == [i \in DOMAIN Incremented |-> Incremented[i] - (Incremented[i] \div 2)]
Renormalized == IF Before.total_freq + STEP > MAX_TOTAL_FREQ THEN Halved ELSE Incremented
MovesUp(fs) == last_decode.x > 0 /\ fs[last_decode.x + 1] > fs[last_decode.x]

C25_TotalFreqBounds ==
    Decoded =>
        /\ Len(frequencies) <= total_freq
        /\ total_freq <= MAX_TOTAL_FREQ
        /\ Before.total_freq + STEP <= MAX_TOTAL_FREQ + STEP
        /\ last_decode.renormalized =>
               /\ SumSeq(Incremented) > MAX_TOTAL_FREQ
               /\ total_freq = SumSeq(Halved)
               /\ SumSeq(Halved) <= MAX_TOTAL_FREQ

C25_Witness ==
    /\ Decoded
    /\ Len(frequencies) = MaxSym + 1
    /\ last_decode.renormalized
    /\ Before.total_freq <= MAX_TOTAL_FREQ
    /\ Before.total_freq + STEP > MAX_TOTAL_FREQ
    /\ total_freq <= MAX_TOTAL_FREQ
    /\ total_freq >= Len(frequencies)

(***************************************************************************)
(* More claims about write_record, checked under SpecRecord.               *)
(***************************************************************************)
\* C27: the Writer's prev_alignment_start changes only at the end of a
\* write_record that returns Ok, where it becomes the alignment_start of the
\* record, whether or not ap_data_series_delta is set; when write_record
\* returns an error at any field prev_alignment_start is unchanged; the
\* Writer's reference_sequence_id never changes.
C27_PrevAlignmentStart ==
    [][/\ reference_sequence_id' = reference_sequence_id
       /\ prev_alignment_start' = IF result'.status = "Ok"
                                  THEN last_call'.record.alignment_start
                                  ELSE prev_alignment_start]_vars

C27_Witness ==
    /\ last_call.called
    /\ result.status = "Ok"
    /\ ~preservation_map.ap_data_series_delta
    /\ last_call.record.alignment_start # last_call.prev_alignment_start
    /\ prev_alignment_start = last_call.record.alignment_start

\* The values write_record passed to the RN series.
ReadNamesWritten == EmittedValues("ReadNames")

\* C28: for every record and every setting of read_names_included,
\* write_record writes the read name to the RN series at most once: exactly
\* once, as "*" when the name is absent, if read_names_included is true or
\* the record is detached, and not at all if read_names_included is false
\* and the record is not detached.
C28_ReadNameOnce ==
    last_call.called =>
        LET r == last_call.record
            named == preservation_map.read_names_included \/ is_detached(r.cram_flags)
        IN  /\ Len(ReadNamesWritten) <= 1
            /\ ~named => ReadNamesWritten = <<>>
            /\ (named /\ result.status = "Ok") =>
                  ReadNamesWritten =
                      << IF is_some(r.read_name) THEN unwrap(r.read_name)
                                                 ELSE MISSING_READ_NAME >>

C28_Witness ==
    /\ last_call.called
    /\ result.status = "Ok"
    /\ preservation_map.read_names_included
    /\ is_detached(last_call.record.cram_flags)
    /\ ~is_some(last_call.record.read_name)
    /\ ReadNamesWritten = << MISSING_READ_NAME >>

(***************************************************************************)
(* substitution_matrix/builder.rs: a Builder that is updated with records  *)
(* and then built.                                                         *)
(***************************************************************************)
\* update calls on one Builder.
MaxUpdates == 2

\* The number of hits of the pair in the histogram.
get(histogram, reference_base, read_base) == histogram[<< reference_base, read_base >>]

\* The four bases other than the reference base, in the order A, C, G, T, N.
read_bases(reference_base) == SelectSeq(Bases5, LAMBDA base : base # reference_base)

\* A stable sort in which an equal count counts as greater: bases of equal
\* count end up in the reverse of the canonical order.
RECURSIVE sort_by_frequency_unstable(_, _, _)
sort_by_frequency_unstable(histogram, reference_base, bases) ==
    IF bases = <<>> THEN <<>>
    ELSE LET sorted == sort_by_frequency_unstable(histogram, reference_base,
                                                  SubSeq(bases, 1, Len(bases) - 1))
             base == bases[Len(bases)]
             n == get(histogram, reference_base, base)
             before == SelectSeq(sorted, LAMBDA b : get(histogram, reference_base, b) > n)
             after == SelectSeq(sorted, LAMBDA b : get(histogram, reference_base, b) <= n)
         IN  before \o << base >> \o after

\* The bases sorted by descending count with a stable sort: each base, in
\* order, goes behind the bases already placed whose count is not less.
RECURSIVE sort_by_frequency(_, _, _)
sort_by_frequency(histogram, reference_base, bases) ==
    IF bases = <<>> THEN <<>>
    ELSE LET sorted == sort_by_frequency(histogram, reference_base,
                                         SubSeq(bases, 1, Len(bases) - 1))
             base == bases[Len(bases)]
             n == get(histogram, reference_base, base)
             before == SelectSeq(sorted, LAMBDA b : get(histogram, reference_base, b) >= n)
             after == SelectSeq(sorted, LAMBDA b : get(histogram, reference_base, b) < n)
         IN  before \o << base >> \o after

\* SubstitutionMatrix::from(Histogram): one row per reference base.
SubstitutionMatrix_from(histogram) ==
    [reference_base \in { Bases5[i] : i \in 1..5 } |->
        sort_by_frequency(histogram, reference_base, read_bases(reference_base))]

\* Builder::build
build(builder) == SubstitutionMatrix_from(builder.histogram)

Substitution(position, reference_base, read_base) ==
    [kind |-> "Substitution", position |-> position,
     value |-> <<"Bases", reference_base, read_base>>]

\* The record of test_build: six substitutions of the reference base A.
TestRecordFeatures ==
    << Substitution(1, "A", "T"), Substitution(3, "A", "T"), Substitution(6, "A", "C"),
       Substitution(7, "A", "G"), Substitution(9, "A", "G"), Substitution(10, "A", "T") >>

\* The feature lists of the records the Builder is updated with: none, one
\* substitution of any pair of bases, a substitution behind a feature of
\* another kind, one that carries a code, and the six of test_build.
MatrixFeatureLists ==
    { <<>>, TestRecordFeatures,
      << [kind |-> "Deletion", position |-> 1, value |-> 3], Substitution(2, "C", "T") >>,
      << [kind |-> "Substitution", position |-> 1, value |-> <<"Code", 2>>] >> }
    \cup { << Substitution(1, Bases5[i], Bases5[j]) >> : i, j \in 1..5 }

MatrixRecords ==
    { Record(0, 0, Some(1), 1, [i \in 1..7 |-> TRUE], <<>>, fs) : fs \in MatrixFeatureLists }

\* The Builder of the state: Builder::default() until update is called.
CurrentBuilder ==
    IF last_call.called
    THEN [histogram |-> last_call.histogram, status |-> last_call.status]
    ELSE substitution_matrix_Builder

SetBuilder(function, builder, matrix) ==
    /\ last_call' = [called |-> TRUE, function |-> function,
                     histogram |-> builder.histogram, status |-> builder.status]
    /\ result' = [status |-> builder.status,
                  kind |-> IF builder.status = "Panic"
                           THEN "substitution matrix cannot be built from substitution codes"
                           ELSE "",
                  error |-> NoError]
    /\ emitted' = matrix
    /\ UNCHANGED <<compression_header, external_data_writers, reference_sequence_id,
                   prev_alignment_start, initial_alignment_start>>
    /\ UNCHANGED modelVars

\* builder.update(&record); written is the list of the records the Builder
\* was updated with.
Update(record) ==
    /\ calls < MaxUpdates
    /\ CurrentBuilder.status = "Ok"
    /\ last_call.called => last_call.function = "update"
    /\ SetBuilder("update", update(CurrentBuilder, record), <<>>)
    /\ written' = Append(written, record)
    /\ calls' = calls + 1

\* builder.build(), which consumes the Builder.
Build ==
    /\ CurrentBuilder.status = "Ok"
    /\ last_call.called => last_call.function = "update"
    /\ SetBuilder("build", CurrentBuilder, build(CurrentBuilder))
    /\ UNCHANGED <<written, calls>>

MatrixInit == ModelIdle /\ WriterIdle

MatrixNext ==
    \/ \E record \in MatrixRecords : Update(record)
    \/ Build

SpecMatrix == MatrixInit /\ [][MatrixNext]_vars

(***************************************************************************)
(* Claims about the substitution matrix Builder, checked under SpecMatrix. *)
(***************************************************************************)
\* The place of a base in the order A, C, G, T, N.
Ordinal(base) == CHOOSE i \in 1..5 : Bases5[i] = base

Built == last_call.called /\ last_call.function = "build"

\* The number of Substitution features of the records the Builder was
\* updated with that carry the pair of bases.
Observed(reference_base, read_base) ==
    Cardinality({ at \in UNION { { << k, i >> : i \in DOMAIN written[k].features } :
                                    k \in DOMAIN written } :
                    /\ written[at[1]].features[at[2]].kind = "Substitution"
                    /\ written[at[1]].features[at[2]].value
                           = << "Bases", reference_base, read_base >> })

\* C21: for every histogram accumulated by the Builder (one hit per
\* Substitution feature that carries a reference/read base pair, other
\* features being passed over) and every reference base r of A, C, G, T, N,
\* the built row of r is a permutation of the four bases other than r whose
\* counts do not increase along the row, bases of equal count being in the
\* order A < C < G < T < N; a row without observations is the four other
\* bases in that order.
C21_RowsSortedByCount ==
    Built =>
        \A r \in { Bases5[i] : i \in 1..5 } :
            LET row == emitted[r]
            IN  /\ \A b \in { Bases5[i] : i \in 1..5 } :
                      get(last_call.histogram, r, b) = Observed(r, b)
                /\ Len(row) = 4
                /\ { row[c] : c \in 1..4 } = { Bases5[i] : i \in 1..5 } \ { r }
                /\ \A c \in 1..3 : Observed(r, row[c]) >= Observed(r, row[c + 1])
                /\ \A c \in 1..3 : Observed(r, row[c]) = Observed(r, row[c + 1])
                                       => Ordinal(row[c]) < Ordinal(row[c + 1])
                /\ (\A b \in { Bases5[i] : i \in 1..5 } \ { r } : Observed(r, b) = 0)
                       => row = read_bases(r)

\* The matrix of test_build.
C21_Witness ==
    /\ Built
    /\ get(last_call.histogram, "A", "T") = 3
    /\ get(last_call.histogram, "A", "G") = 2
    /\ get(last_call.histogram, "A", "C") = 1
    /\ emitted["A"] = << "T", "G", "C", "N" >>
    /\ emitted["C"] = << "A", "G", "T", "N" >>
    /\ emitted["G"] = << "A", "C", "T", "N" >>
    /\ emitted["T"] = << "A", "C", "G", "N" >>
    /\ emitted["N"] = << "A", "C", "G", "T" >>

(***************************************************************************)
(* data_container/builder.rs: a container Builder that records are added   *)
(* to and that is then built.                                              *)
(***************************************************************************)
\* const MAX_SLICE_COUNT: usize = 1
MAX_SLICE_COUNT == 1
\* Records a slice builder takes before it is full.
MaxSliceRecords == 2
\* add_record calls on one container Builder.
MaxAdds == 4

\* Slice::builder(): no record, no reference sequence seen.
Slice_builder == [records |-> <<>>, reference_sequence_id |-> None]

slice_is_empty(slice_builder) == slice_builder.records = <<>>

\* slice::Builder::add_record: the record is handed back in SliceFull by a
\* builder that is full and in ReferenceSequenceIdMismatch by one whose
\* records are of another reference sequence; else it is appended and a
\* reference to it is returned.
slice_add_record(slice_builder, record) ==
    IF Len(slice_builder.records) >= MaxSliceRecords
    THEN [status |-> "SliceFull", record |-> record, slice_builder |-> slice_builder]
    ELSE IF /\ ~slice_is_empty(slice_builder)
            /\ slice_builder.reference_sequence_id # << record.reference_sequence_id >>
         THEN [status |-> "ReferenceSequenceIdMismatch", record |-> record,
               slice_builder |-> slice_builder]
         ELSE [status |-> "Ok", record |-> record,
               slice_builder |-> [records |-> Append(slice_builder.records, record),
                                  reference_sequence_id |-> << record.reference_sequence_id >>]]

\* Builder::new(record_counter)
Builder_new(record_counter) ==
    [ slice_builder |-> Slice_builder,
      slice_builders |-> <<>>,
      record_counter |-> record_counter,
      base_count |-> 0 ]

\* Builder::is_empty
is_empty(builder) == slice_is_empty(builder.slice_builder) /\ builder.slice_builders = <<>>

\* add_record without the check of MAX_SLICE_COUNT.
add_record_without_cap(builder, record) ==
    LET added == slice_add_record(builder.slice_builder, record) IN
    CASE added.status = "Ok" ->
             [status |-> "Ok", record |-> None,
              builder |-> [builder EXCEPT !.slice_builder = added.slice_builder,
                                          !.base_count = @ + added.record.read_length]]
      [] added.status = "SliceFull" ->
             [status |-> "SliceFull", record |-> Some(added.record),
              builder |-> [builder EXCEPT
                              !.slice_builder = Slice_builder,
                              !.slice_builders = Append(@, builder.slice_builder)]]
      [] OTHER ->
             [status |-> "ContainerFull", record |-> Some(added.record), builder |-> builder]

\* add_record that counts the bases of the record before the slice builder
\* has taken it.
add_record_counts_first(builder, record) ==
    LET counted == [builder EXCEPT !.base_count = @ + record.read_length] IN
    IF Len(builder.slice_builders) >= MAX_SLICE_COUNT
    THEN [status |-> "ContainerFull", record |-> Some(record), builder |-> builder]
    ELSE
    LET added == slice_add_record(builder.slice_builder, record) IN
    CASE added.status = "Ok" ->
             [status |-> "Ok", record |-> None,
              builder |-> [counted EXCEPT !.slice_builder = added.slice_builder]]
      [] added.status = "SliceFull" ->
             [status |-> "SliceFull", record |-> Some(added.record),
              builder |-> [counted EXCEPT
                              !.slice_builder = Slice_builder,
                              !.slice_builders = Append(@, builder.slice_builder)]]
      [] OTHER ->
             [status |-> "ContainerFull", record |-> Some(added.record), builder |-> counted]

\* Builder::add_record: Ok(()), or the AddRecordError and the record it
\* carries.
add_record(builder, record) ==
    IF Len(builder.slice_builders) >= MAX_SLICE_COUNT
    THEN [status |-> "ContainerFull", record |-> Some(record), builder |-> builder]
    ELSE
    LET added == slice_add_record(builder.slice_builder, record) IN
    CASE added.status = "Ok" ->
             [status |-> "Ok", record |-> None,
              builder |-> [builder EXCEPT !.slice_builder = added.slice_builder,
                                          !.base_count = @ + added.record.read_length]]
      [] added.status = "SliceFull" ->
             [status |-> "SliceFull", record |-> Some(added.record),
              builder |-> [builder EXCEPT
                              !.slice_builder = Slice_builder,
                              !.slice_builders = Append(@, builder.slice_builder)]]
      [] OTHER ->
             [status |-> "ContainerFull", record |-> Some(added.record), builder |-> builder]

\* Builder::build as far as the slices go: the pending slice builder is
\* pushed unless it is empty, and every slice builder gives one slice.
data_container_build(builder) ==
    LET slice_builders == IF ~slice_is_empty(builder.slice_builder)
                          THEN Append(builder.slice_builders, builder.slice_builder)
                          ELSE builder.slice_builders
    IN  [ slices |-> [i \in DOMAIN slice_builders |-> slice_builders[i].records] ]

\* Records of one or two bases, on reference sequence 1 or on none.
ContainerRecords ==
    { Record(0, 0, Some(1), rl, [i \in 1..7 |-> present], <<>>, <<>>) :
        rl \in 1..MaxReadLength, present \in BOOLEAN }

\* The container Builder of the state: Builder::new(0) until the first call.
CurrentContainer == IF last_call.called THEN last_call.builder ELSE Builder_new(0)

\* written is the history of the add_record calls: the record of each and
\* what was returned for it.
AddRecord(record) ==
    /\ calls < MaxAdds
    /\ last_call.called => last_call.function = "add_record"
    /\ LET done == add_record(CurrentContainer, record)
       IN  /\ last_call' = [called |-> TRUE, function |-> "add_record", record |-> record,
                            before |-> CurrentContainer, builder |-> done.builder]
           /\ result' = [status |-> IF done.status = "Ok" THEN "Ok" ELSE "Err",
                         kind |-> done.status, error |-> done.record]
           /\ written' = Append(written, [record |-> record, returned |-> done.status])
    /\ calls' = calls + 1
    /\ UNCHANGED <<compression_header, external_data_writers, reference_sequence_id,
                   prev_alignment_start, initial_alignment_start, emitted>>
    /\ UNCHANGED modelVars

\* builder.build(..), which consumes the Builder; emitted is the
\* DataContainer.
BuildDataContainer ==
    /\ last_call.called => last_call.function = "add_record"
    /\ last_call' = [called |-> TRUE, function |-> "build", record |-> None,
                     before |-> CurrentContainer, builder |-> CurrentContainer]
    /\ emitted' = data_container_build(CurrentContainer)
    /\ result' = NoResult
    /\ UNCHANGED <<compression_header, external_data_writers, reference_sequence_id,
                   prev_alignment_start, initial_alignment_start, written, calls>>
    /\ UNCHANGED modelVars

ContainerInit == ModelIdle /\ WriterIdle

ContainerNext ==
    \/ \E record \in ContainerRecords : AddRecord(record)
    \/ BuildDataContainer

SpecContainer == ContainerInit /\ [][ContainerNext]_vars

(***************************************************************************)
(* Claims about the container Builder, checked under SpecContainer.        *)
(***************************************************************************)
\* The records for which add_record returned Ok, in the order of the calls.
Added == SelectSeq(written, LAMBDA call : call.returned = "Ok")

\* The records the Builder holds: those of the finished slice builders, then
\* those of the pending one.
RECURSIVE Held(_)
Held(slice_builders) ==
    IF slice_builders = <<>> THEN <<>>
    ELSE Head(slice_builders).records \o Held(Tail(slice_builders))

RECURSIVE SumReadLength(_)
SumReadLength(calls_made) ==
    IF calls_made = <<>> THEN 0
    ELSE Head(calls_made).record.read_length + SumReadLength(Tail(calls_made))

\* C22: a data container holds at most one slice: once add_record has
\* returned SliceFull, every later add_record returns ContainerFull without
\* adding the record, so that in every state of the Builder
\* slice_builders.len() <= 1, and build gives a DataContainer of at most
\* one slice.
C22_AtMostOneSlice ==
    LET builder == CurrentContainer IN
    /\ Len(builder.slice_builders) <= 1
    /\ \A i, j \in DOMAIN written :
          (i < j /\ written[i].returned = "SliceFull")
              => written[j].returned = "ContainerFull"
    /\ Held(builder.slice_builders) \o builder.slice_builder.records
          = [i \in DOMAIN Added |-> Added[i].record]
    /\ (last_call.called /\ last_call.function = "add_record"
            /\ result.kind = "ContainerFull") => last_call.builder = last_call.before
    /\ (last_call.called /\ last_call.function = "build") => Len(emitted.slices) <= 1

C22_Witness ==
    /\ last_call.called
    /\ last_call.function = "build"
    /\ \E i, j \in DOMAIN written :
          /\ i < j
          /\ written[i].returned = "SliceFull"
          /\ written[j].returned = "ContainerFull"
    /\ Len(emitted.slices) = 1
    /\ Len(emitted.slices[1]) = MaxSliceRecords

\* C29: whenever add_record of the container Builder returns an error
\* (SliceFull, or ContainerFull, the latter also for a reference sequence
\* mismatch of the slice), the error carries the record that was passed in
\* and base_count is unchanged; after any sequence of add_record calls
\* base_count is the sum of read_length over the records for which
\* add_record returned Ok.
C29_RejectedRecordReturned ==
    /\ CurrentContainer.base_count = SumReadLength(Added)
    /\ (last_call.called /\ last_call.function = "add_record") =>
          IF result.status = "Ok"
          THEN last_call.builder.base_count
                   = last_call.before.base_count + last_call.record.read_length
          ELSE /\ result.kind \in { "SliceFull", "ContainerFull" }
               /\ result.error = Some(last_call.record)
               /\ last_call.builder.base_count = last_call.before.base_count

C29_Witness ==
    /\ last_call.called
    /\ last_call.function = "add_record"
    /\ result.kind = "ContainerFull"
    /\ last_call.before.slice_builders = <<>>
    /\ result.error = Some(last_call.record)
    /\ CurrentContainer.base_count > 0
    /\ CurrentContainer.base_count = SumReadLength(Added)
    /\ \E i \in DOMAIN written : written[i].returned = "ContainerFull" /\ i < Len(written)

(***************************************************************************)
(* More claims about the map readers, checked under SpecMaps.              *)
(***************************************************************************)
\* The reader got as far as the number of entries, and read a negative one.
NegativeCountRead ==
    /\ last_call.called
    /\ LET buf == split_data(last_call.src)
       IN  /\ buf.status = "Ok"
           /\ get_itf8(buf.value).status = "Ok"
           /\ get_itf8(buf.value).value < 0

\* What a reader returns for a map of no entries.
OnNoEntries ==
    CASE last_call.function = "get_tag_encoding_map" ->
             [status |-> "Ok", kind |-> "", error |-> NoError]
      [] last_call.function = "get_data_series_encoding_map" ->
             [status |-> "Err", kind |-> "InvalidData",
              error |-> Message("missing data series encoding")]
      [] OTHER -> result

\* C30: for every input whose itf8 entry count is negative, each of
\* get_tag_encoding_map, get_data_series_encoding_map and
\* get_preservation_map reads no entry and returns Ok or an io::Error: none
\* of them panics or sizes an allocation from the negative count.
C30_NegativeEntryCount ==
    NegativeCountRead =>
        /\ result.status \in { "Ok", "Err" }
        /\ result = OnNoEntries
        /\ last_call.function = "get_tag_encoding_map" => emitted = {}

\* The same of the two readers that do not size a table from the count.
C30_LoopReaders ==
    (NegativeCountRead /\ last_call.function # "get_tag_encoding_map") =>
        /\ result.status = "Err"
        /\ result.kind = "InvalidData"
        /\ result = OnNoEntries

============================================================================
